---- MODULE Spec2Model ----
(***************************************************************************)
(* FinanceMonitor: the InvertirOnline (IOL) token cache and its clients    *)
(* (src/cloud_run_job/iol.py, src/iol.py) and the Alpha Vantage extractor  *)
(* (alphavantage_extractor/main.py), as state machines.                    *)
(*                                                                         *)
(* Python's None and a missing dictionary key are both written <<>>; a     *)
(* present value v is written <<v>>.  Tokens are the numbers 1..MaxTok.    *)
(***************************************************************************)
EXTENDS Integers, Sequences, FiniteSets, TLC

VARIABLES
    cache,      \* _cached_token_info: access_token, refresh_token, expires_at
    now,        \* datetime.now(), in seconds
    pc,         \* per invocation: the statement it is at
    op,         \* per invocation: the entry point that was called
    attempt,    \* per invocation: 1 = "Attempt 1", 2 = "Attempt 2 (retry)"
    gret,       \* per invocation: value returned by get_valid_access_token
    rtArg,      \* per invocation: current_refresh_token of _refresh_access_token
    resp,       \* per invocation: token_data and expires_at of the response in hand
    ret,        \* per invocation: what the entry point returned
    log,        \* per invocation: the HTTP requests sent so far, with their outcome
    gstart,     \* per invocation: Len(log) when get_valid_access_token was entered
    seen,       \* per invocation: cache and clock as read by the cached-token test
    credsSet,   \* IOL_USERNAME and IOL_PASSWORD are both set
    stale,      \* history: the cached refresh_token is one a refresh request
                \* failed with, and nothing has been stored over it since
    issued,     \* history: when the response that the cached access_token
                \* came from was read, and its expires_in
    e_pc,       \* AlphaVantageExtractor.run: the statement it is at
    query,      \* run: what bq_client.query(...).result() did
    symbols,    \* run: the list get_symbols_to_process returned
    results,    \* run: the results dictionary (success, failed, total)
    calls,      \* run: the extract_symbol calls made, with what each returned
    manifests,  \* run: the results handed to _write_manifest
    exit_code,  \* run: its return value
    e_env,      \* extractor process: MODE and self.run_date
    bucket,     \* the manifest blobs of GCS_BUCKET, by manifest path
    l_env,      \* loader process: MODE and self.run_date
    l_pc,       \* AlphaVantageLoader.run: the statement it is at
    l_runs,     \* loader processes started so far (one uuid4 each)
    l_read,     \* get_files_to_load: the blob it met and how the download went
    gcs_files,  \* run: the list get_files_to_load returned
    temp_table_id, \* the loader's attribute self.temp_table_id, if assigned
    load_results,  \* _load_to_temp: its results dictionary
    move_results,  \* _move_to_processed: its results dictionary
    l_pending,  \* run: the value of the return statement pending in finally
    l_ret,      \* run: its return value
    l_path,     \* run: the return statement or except clause it left by
    deletes,    \* the delete_table calls of the current loader process
    inserts,    \* the INSERT queries of the current loader process
    blobs,      \* the data files the loader copied to processed/ and those
                \* it deleted from raw/
    bq_env,     \* bq.py: BQ_PROJECT_ID, BQ_DATASET_ID and BQ_TABLE_ID are all set
    bq_pc,      \* bq_batch_load_handler: the statement it is at
    bq_req,     \* the request in hand
    bq_rows,    \* bq_load_data: processed_rows
    bq_resp,    \* the response returned: status, error and reported index
    bq_jobs,    \* the load jobs started for the request in hand
    av_pc,      \* alpha_vantage_handler: the statement it is at
    av_req,     \* the request in hand
    av_left,    \* the symbols of the request still to fetch
    symbol_data, \* the handler's local symbol_data
    av_resp,    \* what the handler did: a response, None, or an exception
    cl_pc,      \* AlphaVantageClient.get_latest_daily: the statement it is at
    cl_symbol,  \* its argument
    cl_http,    \* the HTTP response to its request
    cl_ret,     \* what it did: a dict, None, or an exception
    cl_sent,    \* the HTTP requests it has sent
    lc_pc,      \* LECAP scraper: the statement it is at
    lc_req,     \* the request in hand and what the scraping steps yield
    lc_dry,     \* the dry_run argument of main()
    lc_cur,     \* _load_and_transform: the rows it loads, the call that raised
                \* and the exception that is leaving the function
    lc_calls,   \* the BigQuery calls made for the request in hand
    lc_resp     \* the response status

iolVars == <<cache, now, pc, op, attempt, gret, rtArg, resp, ret, log, gstart,
             seen, credsSet, stale, issued>>

extVars == <<e_pc, query, symbols, results, calls, manifests, exit_code,
             e_env, bucket>>

ldrVars == <<l_env, l_pc, l_runs, l_read, gcs_files, temp_table_id,
             load_results, move_results, l_pending, l_ret, l_path, deletes,
             inserts, blobs>>

bqVars == <<bq_env, bq_pc, bq_req, bq_rows, bq_resp, bq_jobs>>

avVars == <<av_pc, av_req, av_left, symbol_data, av_resp>>

clVars == <<cl_pc, cl_symbol, cl_http, cl_ret, cl_sent>>

lcVars == <<lc_pc, lc_req, lc_dry, lc_cur, lc_calls, lc_resp>>

\* What each of the other programs leaves alone.
outsideLdr == <<iolVars, extVars, bqVars, avVars, clVars, lcVars>>
outsideBq == <<iolVars, extVars, ldrVars, avVars, clVars, lcVars>>
outsideAv == <<iolVars, extVars, ldrVars, bqVars, clVars, lcVars>>
outsideCl == <<iolVars, extVars, ldrVars, bqVars, avVars, lcVars>>
outsideLc == <<iolVars, extVars, ldrVars, bqVars, avVars, clVars>>

\* The state of the programs other than the IOL client and the extractor.
otherVars == <<ldrVars, bqVars, avVars, clVars, lcVars>>

----------------------------------------------------------------------------
(* Bounds *)

MaxTok == 2
MaxTime == 1
MaxLife == 1
MaxSym == 3
MaxRuns == 2
MaxRec == 2
MaxAvSym == 3
MaxRows == 1

(* Program constants *)

EXPIRE_BUFFER == 60

None == <<>>
Some(v) == <<v>>
Truthy(x) == x # None
Val(x) == x[1]

Tokens == 1..MaxTok
MaybeToken == {None} \cup {Some(t) : t \in Tokens}

\* expires_in values a token response may carry: the buffer plus 0..MaxLife
\* seconds of usable life, or no expires_in key at all.
ExpiresInChoices == {None} \cup {Some(EXPIRE_BUFFER + d) : d \in 0..MaxLife}

\* What requests.post(TOKEN_URL) can produce: a RequestException (ok = FALSE)
\* or a JSON object in which each key may be missing.
TokenResponses ==
    {[ok |-> FALSE, access_token |-> None, refresh_token |-> None, expires_in |-> None]}
    \cup [ok : {TRUE}, access_token : MaybeToken, refresh_token : MaybeToken,
          expires_in : ExpiresInChoices]

\* What requests.get(url) followed by raise_for_status() can produce.
HttpOutcomes == {"ok", "401", "http_error", "network_error"}

EmptyCache == [access_token |-> None, refresh_token |-> None, expires_at |-> None]

NoResp == [access_token |-> None, refresh_token |-> None, expires_at |-> None]

Event(k, t) == [kind |-> k, tok |-> t, res |-> "pending"]
SetLast(l, r) == [l EXCEPT ![Len(l)].res = r]

\* MODE = os.environ.get("MODE", "daily")  # "daily" or "backfill"
Modes == {"daily", "backfill"}

\* The run dates two processes started around the same time can have:
\* RUN_DATE, or today's date in the time zone the service uses.
Dates == {"d1", "d2"}

\* What a pipeline process fixes at start-up: MODE and self.run_date.  The
\* manifest path manifests/{MODE}/alphavantage/{run_date}.json is a function
\* of the two, so a path is written as the environment that yields it.
Envs == [mode : Modes, run_date : Dates]

DefaultEnv == [mode |-> "daily", run_date |-> "d1"]

ManifestPath(env) == env

\* A bucket with no manifest blob.
EmptyBucket == [path \in Envs |-> None]

----------------------------------------------------------------------------
(* get_valid_access_token, _refresh_access_token, _get_token_from_credentials *)

\* Mutant: the expiry buffer is applied a second time in the test.
CachedValidBufferTwice(c, t) ==
    /\ Truthy(c.access_token)
    /\ Truthy(c.expires_at)
    /\ t + EXPIRE_BUFFER < Val(c.expires_at)

\* The condition of the cached-token branch.
CachedValid(c, t) ==
    /\ Truthy(c.access_token)
    /\ Truthy(c.expires_at)
    /\ t < Val(c.expires_at)

\* Mutant: expires_at without the buffer.
ExpiresAtNoBuffer(td, t) ==
    t + (IF td.expires_in = None THEN 0 ELSE Val(td.expires_in))

\* expires_at as both token functions compute it.
ExpiresAt(td, t) ==
    t + (IF td.expires_in = None THEN 0 ELSE Val(td.expires_in)) - EXPIRE_BUFFER

\* get_valid_access_token returns v to the entry point that called it.
GvatReturn(p, v) ==
    /\ gret' = [gret EXCEPT ![p] = v]
    /\ pc' = [pc EXCEPT ![p] = IF op[p] = "gvat" THEN "done"
                               ELSE IF op[p] = "api" THEN "a_tok" ELSE "h_tok"]
    /\ ret' = [ret EXCEPT ![p] = IF op[p] # "gvat" THEN @
                                 ELSE IF Truthy(v) THEN "token" ELSE "none"]

\* if access_token and expires_at and datetime.now() < expires_at
GCheck(p) ==
    /\ pc[p] = "g_check"
    /\ seen' = [seen EXCEPT ![p] = [cache |-> cache, now |-> now]]
    /\ gstart' = [gstart EXCEPT ![p] = Len(log[p])]
    /\ resp' = [resp EXCEPT ![p] = NoResp]
    /\ pc' = [pc EXCEPT ![p] = IF CachedValid(cache, now) THEN "g_cached"
                               ELSE "g_rtcheck"]
    /\ UNCHANGED <<cache, now, op, attempt, gret, rtArg, ret, log, credsSet, stale, issued, extVars, otherVars>>

\* return _cached_token_info["access_token"]   (cached branch)
GCached(p) ==
    /\ pc[p] = "g_cached"
    /\ GvatReturn(p, cache.access_token)
    /\ UNCHANGED <<cache, now, op, attempt, rtArg, resp, log, gstart, seen, credsSet, stale, issued, extVars, otherVars>>

\* Mutant: the refresh branch is skipped.
GRtCheckSkipRefresh(p) ==
    /\ pc[p] = "g_rtcheck"
    /\ pc' = [pc EXCEPT ![p] = "c_send"]
    /\ UNCHANGED <<cache, now, op, attempt, gret, rtArg, resp, ret, log, gstart,
                   seen, credsSet, stale, issued, extVars, otherVars>>

\* if _cached_token_info["refresh_token"]:
GRtCheck(p) ==
    /\ pc[p] = "g_rtcheck"
    /\ pc' = [pc EXCEPT ![p] = IF Truthy(cache.refresh_token) THEN "r_send"
                               ELSE "c_send"]
    /\ UNCHANGED <<cache, now, op, attempt, gret, rtArg, resp, ret, log, gstart,
                   seen, credsSet, stale, issued, extVars, otherVars>>

\* _refresh_access_token(_cached_token_info["refresh_token"]): requests.post
RSend(p) ==
    /\ pc[p] = "r_send"
    /\ rtArg' = [rtArg EXCEPT ![p] = cache.refresh_token]
    /\ log' = [log EXCEPT ![p] = Append(@, Event("refresh", cache.refresh_token))]
    /\ pc' = [pc EXCEPT ![p] = "r_resp"]
    /\ UNCHANGED <<cache, now, op, attempt, gret, resp, ret, gstart, seen, credsSet, stale, issued, extVars, otherVars>>

\* The refresh response: RequestException or KeyError("access_token") return
\* False; otherwise expires_at is computed and access_token is stored.
RResp(p, R) ==
    /\ pc[p] = "r_resp"
    /\ \E td \in R :
         IF td.ok /\ Truthy(td.access_token)
         THEN /\ resp' = [resp EXCEPT ![p] =
                            [access_token |-> td.access_token,
                             refresh_token |-> td.refresh_token,
                             expires_at |-> Some(ExpiresAt(td, now))]]
              /\ cache' = [cache EXCEPT !.access_token = td.access_token]
              /\ issued' = Some([at |-> now, expires_in |-> td.expires_in])
              /\ pc' = [pc EXCEPT ![p] = "r_store_rt"]
              /\ log' = log
              /\ stale' = stale
         ELSE /\ log' = [log EXCEPT ![p] = SetLast(@, "fail")]
              /\ pc' = [pc EXCEPT ![p] = "g_clear_rt"]
              /\ stale' = TRUE
              /\ issued' = issued
              /\ UNCHANGED <<resp, cache>>
    /\ UNCHANGED <<now, op, attempt, gret, rtArg, ret, gstart, seen, credsSet, extVars, otherVars>>

\* refresh_token = token_data.get("refresh_token", current_refresh_token)
RStoreRt(p) ==
    /\ pc[p] = "r_store_rt"
    /\ cache' = [cache EXCEPT !.refresh_token =
                    IF Truthy(resp[p].refresh_token) THEN resp[p].refresh_token
                    ELSE rtArg[p]]
    /\ stale' = IF Truthy(resp[p].refresh_token) THEN FALSE ELSE stale
    /\ pc' = [pc EXCEPT ![p] = "r_store_ea"]
    /\ UNCHANGED <<now, op, attempt, gret, rtArg, resp, ret, log, gstart, seen, credsSet, issued, extVars, otherVars>>

\* expires_at = expires_at; return True
RStoreEa(p) ==
    /\ pc[p] = "r_store_ea"
    /\ cache' = [cache EXCEPT !.expires_at = resp[p].expires_at]
    /\ log' = [log EXCEPT ![p] = SetLast(@, "ok")]
    /\ pc' = [pc EXCEPT ![p] = "g_ret"]
    /\ UNCHANGED <<now, op, attempt, gret, rtArg, resp, ret, gstart, seen, credsSet, stale, issued, extVars, otherVars>>

\* return _cached_token_info["access_token"]   (after refresh or credentials)
GRet(p) ==
    /\ pc[p] = "g_ret"
    /\ GvatReturn(p, cache.access_token)
    /\ UNCHANGED <<cache, now, op, attempt, rtArg, resp, log, gstart, seen, credsSet, stale, issued, extVars, otherVars>>

\* Mutant: a failed refresh leaves the refresh token in the cache.
GClearRtKeep(p) ==
    /\ pc[p] = "g_clear_rt"
    /\ cache' = cache
    /\ stale' = stale
    /\ pc' = [pc EXCEPT ![p] = "g_clear_at"]
    /\ UNCHANGED <<now, op, attempt, gret, rtArg, resp, ret, log, gstart, seen, credsSet, issued, extVars, otherVars>>

\* Refresh failed: _cached_token_info["refresh_token"] = None
GClearRt(p) ==
    /\ pc[p] = "g_clear_rt"
    /\ cache' = [cache EXCEPT !.refresh_token = None]
    /\ stale' = FALSE
    /\ pc' = [pc EXCEPT ![p] = "g_clear_at"]
    /\ UNCHANGED <<now, op, attempt, gret, rtArg, resp, ret, log, gstart, seen, credsSet, issued, extVars, otherVars>>

\* _cached_token_info["access_token"] = None
GClearAt(p) ==
    /\ pc[p] = "g_clear_at"
    /\ cache' = [cache EXCEPT !.access_token = None]
    /\ pc' = [pc EXCEPT ![p] = "g_clear_ea"]
    /\ UNCHANGED <<now, op, attempt, gret, rtArg, resp, ret, log, gstart, seen, credsSet, stale, issued, extVars, otherVars>>

\* Mutant: a failed refresh gives up instead of falling back to credentials.
GClearEaGiveUp(p) ==
    /\ pc[p] = "g_clear_ea"
    /\ cache' = [cache EXCEPT !.expires_at = None]
    /\ GvatReturn(p, None)
    /\ UNCHANGED <<now, op, attempt, rtArg, resp, log, gstart, seen, credsSet, stale, issued, extVars, otherVars>>

\* _cached_token_info["expires_at"] = None
GClearEa(p) ==
    /\ pc[p] = "g_clear_ea"
    /\ cache' = [cache EXCEPT !.expires_at = None]
    /\ pc' = [pc EXCEPT ![p] = "c_send"]
    /\ UNCHANGED <<now, op, attempt, gret, rtArg, resp, ret, log, gstart, seen, credsSet, stale, issued, extVars, otherVars>>

\* _get_token_from_credentials(IOL_USERNAME, IOL_PASSWORD): requests.post
CSend(p) ==
    /\ pc[p] = "c_send"
    /\ log' = [log EXCEPT ![p] = Append(@, Event("credentials", None))]
    /\ pc' = [pc EXCEPT ![p] = "c_resp"]
    /\ UNCHANGED <<cache, now, op, attempt, gret, rtArg, resp, ret, gstart, seen, credsSet, stale, issued, extVars, otherVars>>

\* Mutant: a failed credentials request also drops the cached access token.
CRespClearOnFail(p, R) ==
    /\ pc[p] = "c_resp"
    /\ \E td \in R :
         IF td.ok /\ Truthy(td.access_token)
         THEN /\ resp' = [resp EXCEPT ![p] =
                            [access_token |-> td.access_token,
                             refresh_token |-> td.refresh_token,
                             expires_at |-> Some(ExpiresAt(td, now))]]
              /\ cache' = [cache EXCEPT !.access_token = td.access_token]
              /\ issued' = Some([at |-> now, expires_in |-> td.expires_in])
              /\ pc' = [pc EXCEPT ![p] = "c_store_rt"]
              /\ UNCHANGED <<log, gret, ret>>
         ELSE /\ log' = [log EXCEPT ![p] = SetLast(@, "fail")]
              /\ GvatReturn(p, None)
              /\ issued' = issued
              /\ cache' = [cache EXCEPT !.access_token = None]
              /\ resp' = resp
    /\ UNCHANGED <<now, op, attempt, rtArg, gstart, seen, credsSet, stale, extVars, otherVars>>

\* The credentials response: RequestException, or KeyError at
\* logging.info("Bearer %s", token_data["access_token"]), return False and
\* get_valid_access_token returns None; otherwise access_token is stored.
CResp(p, R) ==
    /\ pc[p] = "c_resp"
    /\ \E td \in R :
         IF td.ok /\ Truthy(td.access_token)
         THEN /\ resp' = [resp EXCEPT ![p] =
                            [access_token |-> td.access_token,
                             refresh_token |-> td.refresh_token,
                             expires_at |-> Some(ExpiresAt(td, now))]]
              /\ cache' = [cache EXCEPT !.access_token = td.access_token]
              /\ issued' = Some([at |-> now, expires_in |-> td.expires_in])
              /\ pc' = [pc EXCEPT ![p] = "c_store_rt"]
              /\ UNCHANGED <<log, gret, ret>>
         ELSE /\ log' = [log EXCEPT ![p] = SetLast(@, "fail")]
              /\ GvatReturn(p, None)
              /\ issued' = issued
              /\ UNCHANGED <<resp, cache>>
    /\ UNCHANGED <<now, op, attempt, rtArg, gstart, seen, credsSet, stale, extVars, otherVars>>

\* _cached_token_info["refresh_token"] = token_data["refresh_token"]: a
\* missing key raises KeyError here, after access_token was stored.
CStoreRt(p) ==
    /\ pc[p] = "c_store_rt"
    /\ IF Truthy(resp[p].refresh_token)
       THEN /\ cache' = [cache EXCEPT !.refresh_token = resp[p].refresh_token]
            /\ pc' = [pc EXCEPT ![p] = "c_store_ea"]
            /\ stale' = FALSE
            /\ UNCHANGED <<log, gret, ret>>
       ELSE /\ log' = [log EXCEPT ![p] = SetLast(@, "fail")]
            /\ GvatReturn(p, None)
            /\ UNCHANGED <<cache, stale>>
    /\ UNCHANGED <<now, op, attempt, rtArg, resp, gstart, seen, credsSet, issued, extVars, otherVars>>

\* _cached_token_info["expires_at"] = expires_at; return True
CStoreEa(p) ==
    /\ pc[p] = "c_store_ea"
    /\ cache' = [cache EXCEPT !.expires_at = resp[p].expires_at]
    /\ log' = [log EXCEPT ![p] = SetLast(@, "ok")]
    /\ pc' = [pc EXCEPT ![p] = "g_ret"]
    /\ UNCHANGED <<now, op, attempt, gret, rtArg, resp, ret, gstart, seen, credsSet, stale, issued, extVars, otherVars>>

\* One statement of get_valid_access_token or of the functions it calls,
\* with the token endpoint answering from R.
GvatStepFrom(p, R) ==
    \/ GCheck(p) \/ GCached(p) \/ GRtCheck(p)
    \/ RSend(p) \/ RResp(p, R) \/ RStoreRt(p) \/ RStoreEa(p)
    \/ GClearRt(p) \/ GClearAt(p) \/ GClearEa(p)
    \/ CSend(p) \/ CResp(p, R) \/ CStoreRt(p) \/ CStoreEa(p)
    \/ GRet(p)

GvatStep(p) == GvatStepFrom(p, TokenResponses)

\* The clock advances.
Tick ==
    /\ now < MaxTime
    /\ now' = now + 1
    /\ UNCHANGED <<cache, pc, op, attempt, gret, rtArg, resp, ret, log, gstart,
                   seen, credsSet, stale, issued, extVars, otherVars>>

\* The caller goes on: the locals of the get_valid_access_token call that
\* returned are gone.
GvatLocalsGone(p) ==
    /\ rtArg' = [rtArg EXCEPT ![p] = None]
    /\ resp' = [resp EXCEPT ![p] = NoResp]
    /\ seen' = [seen EXCEPT ![p] = [cache |-> EmptyCache, now |-> 0]]

----------------------------------------------------------------------------
(* src/cloud_run_job/iol.py: _make_authenticated_api_call *)

\* access_token = get_valid_access_token(); if not access_token: return None;
\* otherwise requests.get(url, headers) is sent (attempt 1 and attempt 2).
ATok(p) ==
    /\ pc[p] = "a_tok"
    /\ IF Truthy(gret[p])
       THEN /\ log' = [log EXCEPT ![p] = Append(@, Event("get", gret[p]))]
            /\ pc' = [pc EXCEPT ![p] = "a_resp"]
            /\ ret' = ret
       ELSE /\ ret' = [ret EXCEPT ![p] = "none"]
            /\ pc' = [pc EXCEPT ![p] = "done"]
            /\ log' = log
    /\ GvatLocalsGone(p)
    /\ UNCHANGED <<cache, now, op, attempt, gret, gstart, credsSet, stale, issued, extVars, otherVars>>

\* Mutant: the first attempt is retried after any failure, not only a 401.
ApiCallOutcomeRetryAny(att, st) ==
    IF st = "ok" THEN "data"
    ELSE IF att = 1 THEN "retry"
    ELSE "none"

\* What follows the answer st to the GET of the given attempt: "data" and
\* "none" are returned, "retry" invalidates the token and tries again.
ApiCallOutcome(att, st) ==
    IF st = "ok" THEN "data"
    ELSE IF att = 1 /\ st = "401" THEN "retry"
    ELSE "none"

\* The answer to the GET: response.raise_for_status(); return response.json()
AResp(p) ==
    /\ pc[p] = "a_resp"
    /\ \E st \in HttpOutcomes :
         /\ log' = [log EXCEPT ![p] = SetLast(@, st)]
         /\ IF ApiCallOutcome(attempt[p], st) = "retry"
            THEN /\ pc' = [pc EXCEPT ![p] = "a_inval_at"]
                 /\ ret' = ret
            ELSE /\ pc' = [pc EXCEPT ![p] = "done"]
                 /\ ret' = [ret EXCEPT ![p] = ApiCallOutcome(attempt[p], st)]
    /\ UNCHANGED <<cache, now, op, attempt, gret, rtArg, resp, gstart, seen, credsSet, stale, issued, extVars, otherVars>>

\* Mutant: the 401 branch leaves the access token in the cache.
AInvalAtKeep(p) ==
    /\ pc[p] = "a_inval_at"
    /\ cache' = cache
    /\ pc' = [pc EXCEPT ![p] = "a_inval_ea"]
    /\ UNCHANGED <<now, op, attempt, gret, rtArg, resp, ret, log, gstart, seen, credsSet, stale, issued, extVars, otherVars>>

\* On 401: _cached_token_info["access_token"] = None
AInvalAt(p) ==
    /\ pc[p] = "a_inval_at"
    /\ cache' = [cache EXCEPT !.access_token = None]
    /\ pc' = [pc EXCEPT ![p] = "a_inval_ea"]
    /\ UNCHANGED <<now, op, attempt, gret, rtArg, resp, ret, log, gstart, seen, credsSet, stale, issued, extVars, otherVars>>

\* _cached_token_info["expires_at"] = None; then the retry's
\* get_valid_access_token()
AInvalEa(p) ==
    /\ pc[p] = "a_inval_ea"
    /\ cache' = [cache EXCEPT !.expires_at = None]
    /\ attempt' = [attempt EXCEPT ![p] = 2]
    /\ pc' = [pc EXCEPT ![p] = "g_check"]
    /\ UNCHANGED <<now, op, gret, rtArg, resp, ret, log, gstart, seen, credsSet, stale, issued, extVars, otherVars>>

\* An entry point o is called: the invocation's locals start afresh.
Call(p, o) ==
    /\ pc[p] \in {"idle", "done"}
    /\ op' = [op EXCEPT ![p] = o]
    /\ attempt' = [attempt EXCEPT ![p] = 1]
    /\ gret' = [gret EXCEPT ![p] = None]
    /\ rtArg' = [rtArg EXCEPT ![p] = None]
    /\ resp' = [resp EXCEPT ![p] = NoResp]
    /\ ret' = [ret EXCEPT ![p] = "running"]
    /\ log' = [log EXCEPT ![p] = <<>>]
    /\ gstart' = [gstart EXCEPT ![p] = 0]
    /\ seen' = [seen EXCEPT ![p] = [cache |-> cache, now |-> now]]
    /\ UNCHANGED <<cache, now, credsSet, stale, issued, extVars, otherVars>>

\* get_valid_access_token() called on its own.
CallGvat(p) ==
    /\ Call(p, "gvat")
    /\ pc' = [pc EXCEPT ![p] = "g_check"]

\* _make_authenticated_api_call(url) (list_fci_data, get_daily_quotes_data).
CallApi(p) ==
    /\ Call(p, "api")
    /\ pc' = [pc EXCEPT ![p] = "g_check"]

InitIol(P, c) ==
    /\ cache = c
    /\ now = 0
    /\ pc = [p \in P |-> "idle"]
    /\ op = [p \in P |-> "none"]
    /\ attempt = [p \in P |-> 1]
    /\ gret = [p \in P |-> None]
    /\ rtArg = [p \in P |-> None]
    /\ resp = [p \in P |-> NoResp]
    /\ ret = [p \in P |-> "running"]
    /\ log = [p \in P |-> <<>>]
    /\ gstart = [p \in P |-> 0]
    /\ seen = [p \in P |-> [cache |-> c, now |-> 0]]
    /\ stale = FALSE
    /\ issued = None

\* Sequential use: one invocation at a time.
Main == 1

vars == <<iolVars, extVars, otherVars>>

\* The extractor before run() is called, in a process started with env and
\* a bucket holding b.
InitExtIn(env, b) ==
    /\ e_pc = "idle"
    /\ query = [raised |-> FALSE, rows |-> <<>>]
    /\ symbols = <<>>
    /\ results = [success |-> <<>>, failed |-> <<>>, total |-> 0]
    /\ calls = <<>>
    /\ manifests = <<>>
    /\ exit_code = None
    /\ e_env = env
    /\ bucket = b

\* The loader before run() is called, in a process started with env.
InitLdrIn(env) ==
    /\ l_env = env
    /\ l_pc = "idle"
    /\ l_runs = 0
    /\ l_read = [blob |-> None, download |-> "-"]
    /\ gcs_files = <<>>
    /\ temp_table_id = None
    /\ load_results = [success |-> FALSE, loaded_files |-> <<>>,
                       failed_files |-> <<>>]
    /\ move_results = [moved |-> <<>>, failed |-> <<>>]
    /\ l_pending = None
    /\ l_ret = None
    /\ l_path = "-"
    /\ deletes = <<>>
    /\ inserts = <<>>
    /\ blobs = [copied |-> {}, deleted |-> {}]

\* The programs other than the one a specification is about, not started.
InitExt == InitExtIn(DefaultEnv, EmptyBucket)

\* bq.py before a request, with or without its environment variables.
NoBqRequest ==
    [method |-> "-", content_type |-> "-", payload |-> "-", symbols |-> <<>>]

NoBqResponse == [status |-> 0, error |-> "-", index |-> 0]

InitBqIn(envset) ==
    /\ bq_env = envset
    /\ bq_pc = "idle"
    /\ bq_req = NoBqRequest
    /\ bq_rows = <<>>
    /\ bq_resp = NoBqResponse
    /\ bq_jobs = <<>>

\* alphavantage.py before a request.
InitAv ==
    /\ av_pc = "idle"
    /\ av_req = [method |-> "-", symbols |-> <<>>]
    /\ av_left = <<>>
    /\ symbol_data = [state |-> "unbound", ticker |-> "-"]
    /\ av_resp = "-"

\* The packaged client before a call.
NoHttp == [status |-> "-", body |-> "-", meta |-> "-", series |-> "-"]

InitCl ==
    /\ cl_pc = "idle"
    /\ cl_symbol = "-"
    /\ cl_http = NoHttp
    /\ cl_ret = "-"
    /\ cl_sent = 0

\* The LECAP scraper before a request.
NoLcRequest ==
    [endpoint |-> "-", dry_run |-> FALSE, scrape |-> "-", fixed_income_rows |-> 0,
     daily_values_rows |-> 0, project_id |-> FALSE]

InitLc ==
    /\ lc_pc = "idle"
    /\ lc_req = NoLcRequest
    /\ lc_dry = FALSE
    /\ lc_cur = [rows |-> "-", failed |-> "-", error |-> "-"]
    /\ lc_calls = <<>>
    /\ lc_resp = "-"

InitOther ==
    /\ InitLdrIn(DefaultEnv)
    /\ InitBqIn(TRUE)
    /\ InitAv
    /\ InitCl
    /\ InitLc

Init ==
    /\ InitIol({Main}, EmptyCache)
    /\ credsSet = TRUE
    /\ InitExt
    /\ InitOther

Next ==
    \/ CallGvat(Main)
    \/ CallApi(Main)
    \/ GvatStep(Main)
    \/ ATok(Main) \/ AResp(Main) \/ AInvalAt(Main) \/ AInvalEa(Main)
    \/ Tick

Spec == Init /\ [][Next]_vars

----------------------------------------------------------------------------
(* Properties of the sequential IOL client (Spec) *)

IsGet(e) == e.kind = "get"
IsTokenRequest(e) == e.kind \in {"refresh", "credentials"}

\* The GET requests the invocation has sent so far.
Gets(p) == SelectSeq(log[p], IsGet)

\* The token-endpoint requests sent by the current (or last) call of
\* get_valid_access_token.
TokenRequests(p) ==
    SelectSeq(SubSeq(log[p], gstart[p] + 1, Len(log[p])), IsTokenRequest)

\* get_valid_access_token is running.
InGvat(p) ==
    pc[p] \in {"g_cached", "g_rtcheck", "r_send", "r_resp", "r_store_rt",
               "r_store_ea", "g_clear_rt", "g_clear_at", "g_clear_ea", "c_send",
               "c_resp", "c_store_rt", "c_store_ea", "g_ret"}

\* get_valid_access_token has returned and its caller has not moved on.
GvatReturned(p) ==
    \/ pc[p] \in {"a_tok", "h_tok"}
    \/ pc[p] = "done" /\ op[p] = "gvat"

\* When the call tested the cache, it held an unexpired access token.
SeenUnexpired(p) ==
    /\ seen[p].cache.access_token # None
    /\ seen[p].cache.expires_at # None
    /\ seen[p].now < seen[p].cache.expires_at[1]

\* C1: one _make_authenticated_api_call sends at most two GETs; a second GET
\* is sent only after the first was answered 401; any other first-attempt
\* failure returns None after a single GET; no third GET follows a failed
\* second one.
C1_OneShotRetry ==
    op[Main] = "api" =>
        LET g == Gets(Main) IN
        /\ Len(g) <= 2
        /\ Len(g) = 2 => g[1].res = "401"
        /\ (Len(g) >= 1 /\ g[1].res \in {"http_error", "network_error"}) =>
               /\ Len(g) = 1
               /\ pc[Main] = "done"
               /\ ret[Main] = "none"
        /\ (Len(g) = 2 /\ g[2].res \notin {"pending", "ok"}) =>
               /\ pc[Main] = "done"
               /\ ret[Main] = "none"

\* C1 witness: the retry after a 401 failed too and the call returned None.
C1_Witness ==
    /\ op[Main] = "api"
    /\ pc[Main] = "done"
    /\ Len(Gets(Main)) = 2
    /\ Gets(Main)[1].res = "401"
    /\ Gets(Main)[2].res = "401"
    /\ ret[Main] = "none"

\* C3: one get_valid_access_token sends at most one refresh and at most one
\* credentials request, refresh first; refresh only with no unexpired token
\* and a cached refresh token; credentials only with no unexpired token and
\* either no cached refresh token or a failed refresh in this call.
C3_TokenRequestOrder ==
    (InGvat(Main) \/ GvatReturned(Main)) =>
    LET t == TokenRequests(Main) IN
    /\ Len(t) <= 2
    /\ Len(t) = 2 => t[1].kind = "refresh" /\ t[2].kind = "credentials"
    /\ \A i \in 1..Len(t) :
         /\ ~SeenUnexpired(Main)
         /\ t[i].kind = "refresh" => seen[Main].cache.refresh_token # None
         /\ t[i].kind = "credentials" =>
              \/ seen[Main].cache.refresh_token = None
              \/ i = 2 /\ t[1].kind = "refresh" /\ t[1].res = "fail"

\* C3 witness: a refresh failed and the credentials request followed it.
C3_Witness ==
    LET t == TokenRequests(Main) IN
    /\ Len(t) = 2
    /\ t[1].kind = "refresh" /\ t[1].res = "fail"
    /\ t[2].kind = "credentials" /\ t[2].res = "ok"
    /\ GvatReturned(Main)

\* C4: with an unexpired cached token, get_valid_access_token returns it,
\* sends nothing to the token endpoint and leaves the cache as it was.
C4_CachedBranchFrame ==
    (GvatReturned(Main) /\ SeenUnexpired(Main)) =>
        /\ gret[Main] = seen[Main].cache.access_token
        /\ TokenRequests(Main) = <<>>
        /\ cache = seen[Main].cache

\* C4 witness: a call returned the cached token of an authenticated cache.
C4_Witness ==
    /\ GvatReturned(Main)
    /\ SeenUnexpired(Main)
    /\ seen[Main].cache.refresh_token # None
    /\ gret[Main] = cache.access_token

\* C5: get_valid_access_token returns None exactly when the credentials
\* request of that call failed; a returned token is the cache's access_token
\* and is the unexpired cached token or the token of this call's response.
C5_ReturnValue ==
    GvatReturned(Main) =>
        LET t == TokenRequests(Main) IN
        /\ gret[Main] = None <=>
             (\E i \in 1..Len(t) : t[i].kind = "credentials" /\ t[i].res = "fail")
        /\ gret[Main] # None =>
             /\ gret[Main] = cache.access_token
             /\ \/ SeenUnexpired(Main) /\ gret[Main] = seen[Main].cache.access_token
                \/ /\ Len(t) >= 1
                   /\ t[Len(t)].res = "ok"
                   /\ gret[Main] = resp[Main].access_token

\* C5 witness: refresh and credentials both failed and None was returned.
C5_Witness ==
    LET t == TokenRequests(Main) IN
    /\ GvatReturned(Main)
    /\ gret[Main] = None
    /\ Len(t) = 2
    /\ t[2].kind = "credentials" /\ t[2].res = "fail"

\* The three cache states of the specification.
CacheEmpty(c) ==
    c.access_token = None /\ c.refresh_token = None /\ c.expires_at = None
CacheAuthenticated(c) ==
    c.access_token # None /\ c.refresh_token # None /\ c.expires_at # None
CacheInvalidated(c) ==
    c.access_token = None /\ c.refresh_token # None /\ c.expires_at = None

\* C6: between invocations the cache is empty, authenticated or invalidated.
C6_ThreeCacheStates ==
    pc[Main] \in {"idle", "done"} =>
        CacheEmpty(cache) \/ CacheAuthenticated(cache) \/ CacheInvalidated(cache)

----------------------------------------------------------------------------
(* src/iol.py: iol_api_handler and list_fci_data.  The module has its own    *)
(* _cached_token_info and a get_valid_access_token that is statement for    *)
(* statement the one above.                                                 *)

\* iol_api_handler(request)
CallHandler(p) ==
    /\ Call(p, "handler")
    /\ pc' = [pc EXCEPT ![p] = IF credsSet THEN "g_check" ELSE "h_nocreds"]

\* if not IOL_USERNAME or not IOL_PASSWORD: return 500
HNoCreds(p) ==
    /\ pc[p] = "h_nocreds"
    /\ ret' = [ret EXCEPT ![p] = "500"]
    /\ pc' = [pc EXCEPT ![p] = "done"]
    /\ UNCHANGED <<cache, now, op, attempt, gret, rtArg, resp, log, gstart, seen, credsSet, stale, issued, extVars, otherVars>>

\* access_token = get_valid_access_token(); if not access_token: return 500;
\* otherwise list_fci_data(access_token) sends its GET (attempt 1 and retry).
HTok(p) ==
    /\ pc[p] = "h_tok"
    /\ IF Truthy(gret[p])
       THEN /\ log' = [log EXCEPT ![p] = Append(@, Event("get", gret[p]))]
            /\ pc' = [pc EXCEPT ![p] = "l_resp"]
            /\ ret' = ret
       ELSE /\ ret' = [ret EXCEPT ![p] = "500"]
            /\ pc' = [pc EXCEPT ![p] = "done"]
            /\ log' = log
    /\ GvatLocalsGone(p)
    /\ UNCHANGED <<cache, now, op, attempt, gret, gstart, credsSet, stale, issued, extVars, otherVars>>

\* Mutant: the handler retries only when list_fci_data saw a 401.
HandlerOutcomeRetry401(att, st) ==
    IF st = "ok" THEN "200"
    ELSE IF att = 1 /\ st = "401" THEN "retry"
    ELSE "500"

\* What iol_api_handler does with list_fci_data's result for the GET answered
\* st: fci_data is not None -> 200; None on attempt 1 -> retry; else 500.
HandlerOutcome(att, st) ==
    IF st = "ok" THEN "200"
    ELSE IF att = 1 THEN "retry"
    ELSE "500"

\* list_fci_data returned to iol_api_handler with the GET answered st.
HandlerContinue(p, st) ==
    IF HandlerOutcome(attempt[p], st) = "retry"
    THEN /\ attempt' = [attempt EXCEPT ![p] = 2]
         /\ pc' = [pc EXCEPT ![p] = "g_check"]
         /\ ret' = ret
    ELSE /\ ret' = [ret EXCEPT ![p] = HandlerOutcome(attempt[p], st)]
         /\ pc' = [pc EXCEPT ![p] = "done"]
         /\ attempt' = attempt

\* list_fci_data: the answer to requests.get(FCI_LIST_URL); a 401 goes on to
\* invalidate the cached token before None is returned.
LResp(p) ==
    /\ pc[p] = "l_resp"
    /\ \E st \in HttpOutcomes :
         /\ log' = [log EXCEPT ![p] = SetLast(@, st)]
         /\ IF st = "401"
            THEN /\ pc' = [pc EXCEPT ![p] = "l_inval_at"]
                 /\ UNCHANGED <<ret, attempt>>
            ELSE HandlerContinue(p, st)
    /\ UNCHANGED <<cache, now, op, gret, rtArg, resp, gstart, seen, credsSet, stale, issued, extVars, otherVars>>

\* list_fci_data on 401: _cached_token_info["access_token"] = None
LInvalAt(p) ==
    /\ pc[p] = "l_inval_at"
    /\ cache' = [cache EXCEPT !.access_token = None]
    /\ pc' = [pc EXCEPT ![p] = "l_inval_ea"]
    /\ UNCHANGED <<now, op, attempt, gret, rtArg, resp, ret, log, gstart, seen, credsSet, stale, issued, extVars, otherVars>>

\* _cached_token_info["expires_at"] = None; return None
LInvalEa(p) ==
    /\ pc[p] = "l_inval_ea"
    /\ cache' = [cache EXCEPT !.expires_at = None]
    /\ HandlerContinue(p, "401")
    /\ UNCHANGED <<now, op, gret, rtArg, resp, log, gstart, seen, credsSet, stale, issued, extVars, otherVars>>

InitHandler ==
    /\ InitIol({Main}, EmptyCache)
    /\ credsSet \in BOOLEAN
    /\ InitExt
    /\ InitOther

NextHandler ==
    \/ CallHandler(Main)
    \/ HNoCreds(Main)
    \/ GvatStep(Main)
    \/ HTok(Main) \/ LResp(Main) \/ LInvalAt(Main) \/ LInvalEa(Main)
    \/ Tick

SpecHandler == InitHandler /\ [][NextHandler]_vars

\* C2 (as claimed): iol_api_handler calls list_fci_data a second time only
\* when the first call was rejected with 401; any other first-call failure
\* returns 500 after a single GET; there is never a third GET.
C2_RetryOnlyOn401 ==
    op[Main] = "handler" =>
        LET g == Gets(Main) IN
        /\ Len(g) <= 2
        /\ Len(g) = 2 => g[1].res = "401"
        /\ (Len(g) >= 1 /\ g[1].res \in {"http_error", "network_error"}) =>
               /\ Len(g) = 1
               /\ pc[Main] = "done"
               /\ ret[Main] = "500"

\* C2 (amended): a second list_fci_data call is made only after the first
\* failed, whatever the failure, and is made whenever the retry's
\* get_valid_access_token returns a token; there is never a third GET.
C2_RetryOnAnyFailure ==
    op[Main] = "handler" =>
        LET g == Gets(Main) IN
        /\ Len(g) <= 2
        /\ Len(g) = 2 => g[1].res \in {"401", "http_error", "network_error"}
        /\ (Len(g) = 1 /\ pc[Main] = "done" /\ g[1].res # "ok") =>
               /\ attempt[Main] = 2
               /\ gret[Main] = None
               /\ ret[Main] = "500"
        /\ (Len(g) = 2 /\ g[2].res \notin {"pending", "ok"} /\ pc[Main] \notin {"l_inval_at", "l_inval_ea"}) =>
               /\ pc[Main] = "done"
               /\ ret[Main] = "500"

\* C2 witness: the first GET failed with a status other than 401 and a
\* second GET was sent.
C2_Witness ==
    /\ op[Main] = "handler"
    /\ Len(Gets(Main)) = 2
    /\ Gets(Main)[1].res = "http_error"
    /\ Gets(Main)[2].res = "401"
    /\ pc[Main] = "done"

----------------------------------------------------------------------------
(* Two invocations of get_valid_access_token that interleave on the one     *)
(* cache of a process: each statement that reads or writes the cache is a   *)
(* step, and nothing orders the steps of different invocations.             *)

ConcProcs == {1, 2}

\* The caches both invocations may find: authenticated and expired, as a
\* token response without expires_in, or with expires_in equal to the
\* buffer, leaves it.
ExpiredCaches ==
    {[access_token |-> Some(a), refresh_token |-> Some(r),
      expires_at |-> Some(0 - d)] : a \in Tokens, r \in Tokens,
                                    d \in {0, EXPIRE_BUFFER}}

InitConc ==
    /\ \E c \in ExpiredCaches : InitIol(ConcProcs, c)
    /\ credsSet = TRUE
    /\ InitExt
    /\ InitOther

\* Each of the two invocations is one call of get_valid_access_token.
CallOnce(p) ==
    /\ pc[p] = "idle"
    /\ CallGvat(p)

\* The answers of the token endpoint while the two invocations run: an
\* error, or a complete token response with a usable lifetime.
ConcResponses ==
    {td \in TokenResponses :
        \/ ~td.ok
        \/ /\ td.access_token # None
           /\ td.refresh_token # None
           /\ td.expires_in = Some(EXPIRE_BUFFER + MaxLife)}

NextConc ==
    \E p \in ConcProcs : CallOnce(p) \/ GvatStepFrom(p, ConcResponses)

SpecConc == InitConc /\ [][NextConc]_vars

\* The invocation's refresh request was sent and failed.
RefreshFailed(p) ==
    /\ Len(log[p]) >= 1
    /\ log[p][1].kind = "refresh"
    /\ log[p][1].res = "fail"

\* C7: nothing guards the cache between invocations.  A token that one
\* invocation stored is gone from the cache before that invocation returns
\* only because the other invocation's refresh failed and it cleared the
\* cache; the witness is such a run, both refresh requests carrying the same
\* refresh token.
C7_ClearedByFailedRefresh ==
    \A q \in ConcProcs :
        (pc[q] = "g_ret" /\ cache.access_token = None) =>
            \E p \in ConcProcs \ {q} :
                /\ RefreshFailed(p)
                /\ pc[p] \notin {"r_resp", "g_clear_rt", "g_clear_at"}

\* C7 witness: both invocations sent a refresh request with the same refresh
\* token; q's succeeded and q stored all three fields; p's failed and p has
\* set all three to None before q returned.
C7_Witness ==
    \E p, q \in ConcProcs :
        /\ p # q
        /\ RefreshFailed(p)
        /\ pc[p] = "c_send"
        /\ Len(log[q]) = 1
        /\ log[q][1].kind = "refresh"
        /\ log[q][1].res = "ok"
        /\ log[q][1].tok = log[p][1].tok
        /\ pc[q] = "g_ret"
        /\ resp[q].access_token # seen[q].cache.access_token
        /\ cache = EmptyCache

----------------------------------------------------------------------------
(* alphavantage_extractor/main.py: AlphaVantageExtractor                    *)
(*                                                                         *)
(* A symbol is a (ticker_symbol, exchange_country, exchange_code) tuple,   *)
(* written as its rank 1..MaxSym in ticker order.                           *)

GOOG == 1

SymbolIds == 1..MaxSym

\* The row lists of SELECT DISTINCT ... ORDER BY ticker_symbol: distinct
\* tuples in ticker order.
RowLists ==
    {r \in UNION {[1..n -> SymbolIds] : n \in 0..MaxSym} :
        \A i \in 1..Len(r) : \A j \in 1..Len(r) : i < j => r[i] < r[j]}

\* bq_client.query(query).result(): an exception, or the rows.
QueryOutcomes ==
    {[raised |-> TRUE, rows |-> <<>>]} \cup [raised : {FALSE}, rows : RowLists]

\* get_symbols_to_process: the rows as tuples; the BigQuery error is caught
\* and the default list is returned.
GetSymbolsToProcess(q) ==
    IF q.raised THEN <<GOOG>> ELSE q.rows

\* What extract_symbol meets for one symbol: the value of
\* client.get_short_backfill (a DataFrame with rows, an empty DataFrame, the
\* response text or None of the packaged client, or an exception), then of
\* blob.upload_from_string and of blob.patch.  A call that is not reached has
\* no outcome ("-").
ExtractOutcomes ==
    [data : {"empty", "text", "none", "raises"}, upload : {"-"}, patch : {"-"}]
    \cup [data : {"frame"}, upload : {"NotFound", "Forbidden", "error"},
          patch : {"-"}]
    \cup [data : {"frame"}, upload : {"ok"}, patch : {"ok", "error"}]

\* gs://{GCS_BUCKET}/raw/{MODE}/alphavantage/{country}_{exchange}_{symbol}/{run_date}.csv
GcsUri(sym) == <<"gs", "raw", sym>>

\* One extract_symbol call ended: its return value, whether the upload and
\* the patch completed, and whether an exception left the function.
Ended(r, u, pt, x) == [ret |-> r, uploaded |-> u, patched |-> pt, raised |-> x]

\* Mutant: only NotFound and Forbidden are caught.
ExtractTraceNarrowCatch(sym, o) ==
    IF o.data = "raises" THEN Ended(None, FALSE, FALSE, TRUE)
    ELSE IF o.data \in {"text", "none"} THEN Ended(None, FALSE, FALSE, TRUE)
    ELSE IF o.data = "empty" THEN Ended(None, FALSE, FALSE, FALSE)
    ELSE IF o.upload \in {"NotFound", "Forbidden"}
         THEN Ended(None, FALSE, FALSE, FALSE)
    ELSE IF o.upload = "error" THEN Ended(None, FALSE, FALSE, TRUE)
    ELSE IF o.patch # "ok" THEN Ended(None, TRUE, FALSE, TRUE)
    ELSE Ended(Some(GcsUri(sym)), TRUE, TRUE, FALSE)

\* extract_symbol, statement by statement: an exception of
\* get_short_backfill, the AttributeError of data.empty on a str or None, and
\* an exception of the upload or of the patch all end in an except clause
\* that returns None; empty data returns None before the upload.
ExtractTrace(sym, o) ==
    IF o.data = "raises" THEN Ended(None, FALSE, FALSE, FALSE)
    ELSE IF o.data \in {"text", "none"} THEN Ended(None, FALSE, FALSE, FALSE)
    ELSE IF o.data = "empty" THEN Ended(None, FALSE, FALSE, FALSE)
    ELSE IF o.upload # "ok" THEN Ended(None, FALSE, FALSE, FALSE)
    ELSE IF o.patch # "ok" THEN Ended(None, TRUE, FALSE, FALSE)
    ELSE Ended(Some(GcsUri(sym)), TRUE, TRUE, FALSE)

\* extract_symbol: the URI after upload and patch, None for empty data and
\* for every exception.
ExtractSymbol(sym, o) == ExtractTrace(sym, o).ret

\* Mutant: a failed symbol is logged and not recorded.
RecordResultDropFailed(res, sym, uri) ==
    IF Truthy(uri)
    THEN [res EXCEPT !.success = Append(@, [symbol |-> sym, gcs_uri |-> uri])]
    ELSE res

\* if gcs_uri: results["success"].append(...) else: results["failed"].append(...)
RecordResult(res, sym, uri) ==
    IF Truthy(uri)
    THEN [res EXCEPT !.success = Append(@, [symbol |-> sym, gcs_uri |-> uri])]
    ELSE [res EXCEPT !.failed = Append(@, [symbol |-> sym, gcs_uri |-> None])]

\* Mutant: any failed symbol fails the run.
ExitCodeStrict(res) ==
    IF res.success # <<>> /\ res.failed = <<>> THEN 0 ELSE 1

\* return 0 if results["success"] else 1
ExitCode(res) ==
    IF res.success # <<>> THEN 0 ELSE 1

\* main(): extractor = AlphaVantageExtractor(); extractor.run(), once in a
\* process.  run(): symbols = self.get_symbols_to_process(); results = {...}
ERun ==
    /\ e_pc = "idle"
    /\ \E q \in QueryOutcomes :
         /\ query' = q
         /\ symbols' = GetSymbolsToProcess(q)
         /\ results' = [success |-> <<>>, failed |-> <<>>,
                        total |-> Len(GetSymbolsToProcess(q))]
    /\ calls' = <<>>
    /\ manifests' = <<>>
    /\ exit_code' = None
    /\ e_pc' = "loop"
    /\ UNCHANGED <<e_env, bucket, iolVars, otherVars>>

\* One iteration of: for (symbol, country, exchange) in symbols, with
\* extract_symbol meeting an outcome of O.  An exception leaving
\* extract_symbol would leave run() too.
EExtractFrom(O) ==
    /\ e_pc = "loop"
    /\ Len(calls) < Len(symbols)
    /\ LET sym == symbols[Len(calls) + 1] IN
       \E o \in O :
         LET t == ExtractTrace(sym, o) IN
         /\ calls' = Append(calls, [symbol |-> sym, uri |-> t.ret,
                                    data |-> o.data, upload |-> o.upload,
                                    uploaded |-> t.uploaded,
                                    patched |-> t.patched,
                                    raised |-> t.raised])
         /\ IF t.raised
            THEN e_pc' = "raised" /\ results' = results
            ELSE e_pc' = e_pc /\ results' = RecordResult(results, sym, t.ret)
    /\ UNCHANGED <<query, symbols, manifests, exit_code, e_env, bucket, iolVars,
                   otherVars>>

EExtract == EExtractFrom(ExtractOutcomes)

\* The JSON object of a results["success"] entry: symbol and gcs_uri.
SuccessItem(e) == [symbol |-> e.symbol, gcs_uri |-> Val(e.gcs_uri)]

\* The JSON object of a results["failed"] entry: it has no gcs_uri key.
FailedItem(e) == [symbol |-> e.symbol]

\* json.dumps(manifest, indent=2) of _write_manifest: the text of a JSON
\* object with run_date, mode and results (lists of objects and a number).
JsonDumps(env, res) ==
    [kind |-> "json",
     run_date |-> env.run_date,
     mode |-> env.mode,
     success |-> [i \in 1..Len(res.success) |-> SuccessItem(res.success[i])],
     failed |-> [i \in 1..Len(res.failed) |-> FailedItem(res.failed[i])],
     total |-> res.total]

\* After the loop: self._write_manifest(results); the upload may raise, and
\* run() raises with it.
EWriteManifest ==
    /\ e_pc = "loop"
    /\ Len(calls) = Len(symbols)
    /\ manifests' = Append(manifests, results)
    /\ \E uploaded \in BOOLEAN :
         IF uploaded
         THEN /\ e_pc' = "written"
              /\ bucket' = [bucket EXCEPT ![ManifestPath(e_env)] =
                                Some(JsonDumps(e_env, results))]
         ELSE /\ e_pc' = "raised"
              /\ bucket' = bucket
    /\ UNCHANGED <<query, symbols, results, calls, exit_code, e_env, iolVars,
                   otherVars>>

\* return 0 if results["success"] else 1
EReturn ==
    /\ e_pc = "written"
    /\ exit_code' = Some(ExitCode(results))
    /\ e_pc' = "done"
    /\ UNCHANGED <<query, symbols, results, calls, manifests, e_env, bucket,
                   iolVars, otherVars>>

InitExtractor ==
    /\ InitIol({Main}, EmptyCache)
    /\ credsSet = TRUE
    /\ \E env \in Envs : InitExtIn(env, EmptyBucket)
    /\ InitOther

NextExtractor ==
    \/ ERun
    \/ EExtract
    \/ EWriteManifest
    \/ EReturn

SpecExtractor == InitExtractor /\ [][NextExtractor]_vars

\* The symbols of a list of result entries.
SymbolsOf(l) == {l[i].symbol : i \in 1..Len(l)}

\* C8: run returns 0 exactly when extract_symbol returned a URI for at least
\* one symbol, and 1 otherwise (all failed, or no symbols).
C8_ExitCode ==
    e_pc = "done" =>
        /\ exit_code \in {Some(0), Some(1)}
        /\ exit_code = Some(0) <=> (\E i \in 1..Len(calls) : calls[i].uri # None)

\* C8 witness: a partial failure returned 0.
C8_Witness ==
    /\ e_pc = "done"
    /\ exit_code = Some(0)
    /\ \E i \in 1..Len(calls) : calls[i].uri = None
    /\ \E i \in 1..Len(calls) : calls[i].uri # None

\* C9: extract_symbol is called once per symbol in list order; the manifest
\* is written once, after the last symbol, whatever the outcomes; every
\* symbol is in exactly one of success and failed, and the two lengths add
\* up to total, the number of symbols.
C9_OncePerSymbol ==
    /\ Len(calls) <= Len(symbols)
    /\ \A i \in 1..Len(calls) : calls[i].symbol = symbols[i]
    /\ Len(results.success) + Len(results.failed) = Len(calls)
    /\ results.total = Len(symbols)
    /\ Len(manifests) <= 1
    /\ e_pc \in {"written", "done", "raised"} <=> Len(manifests) = 1
    /\ Len(manifests) = 1 =>
         /\ Len(calls) = Len(symbols)
         /\ manifests[1] = results
         /\ Len(results.success) + Len(results.failed) = results.total
         /\ \A i \in 1..Len(symbols) :
              (symbols[i] \in SymbolsOf(results.success))
                  # (symbols[i] \in SymbolsOf(results.failed))

\* C9 witness: a run over MaxSym symbols, some extracted and some failed,
\* wrote its manifest and returned.
C9_Witness ==
    /\ e_pc = "done"
    /\ Len(symbols) = MaxSym
    /\ Len(manifests) = 1
    /\ manifests[1].success # <<>>
    /\ manifests[1].failed # <<>>

\* C10: get_symbols_to_process returns the empty list when the query raises
\* or returns no rows, and otherwise the rows in row order.
C10_SymbolsFromQuery ==
    e_pc # "idle" =>
        symbols = (IF query.raised THEN <<>> ELSE query.rows)

\* C11: extract_symbol never raises; empty data returns None and uploads
\* nothing; an exception of the API call or of the upload (NotFound and
\* Forbidden included) returns None; a URI is returned only after the upload
\* and the metadata patch both completed, and it is the symbol's gs:// URI.
C11_ExtractSymbolTotal ==
    \A i \in 1..Len(calls) :
        /\ ~calls[i].raised
        /\ calls[i].data = "empty" => calls[i].uri = None /\ ~calls[i].uploaded
        /\ calls[i].data = "raises" => calls[i].uri = None /\ ~calls[i].uploaded
        /\ calls[i].upload \in {"NotFound", "Forbidden", "error"} =>
               calls[i].uri = None
        /\ calls[i].uri # None =>
               /\ calls[i].uploaded
               /\ calls[i].patched
               /\ calls[i].uri = Some(GcsUri(calls[i].symbol))

\* C11 witness: one run met an upload that raised Forbidden, a patch that
\* raised after a completed upload, and a symbol that was uploaded and patched.
C11_Witness ==
    /\ \E i \in 1..Len(calls) : calls[i].upload = "Forbidden" /\ calls[i].uri = None
    /\ \E i \in 1..Len(calls) : calls[i].uploaded /\ ~calls[i].patched
    /\ \E i \in 1..Len(calls) : calls[i].uri # None

----------------------------------------------------------------------------
(* alphavantage_loader/main.py: AlphaVantageLoader, downstream of the       *)
(* extractor in the DAG (extract >> load).                                  *)

\* A blob at a manifest path that is not JSON.
Garbage == [kind |-> "garbage"]

\* blob.download_as_text() of an existing blob: the text, or an exception.
DownloadOutcomes == {"ok", "error"}

\* Mutant: the files of the failed symbols are listed too.
GetFilesToLoadWithFailed(blob, d) ==
    IF blob = None THEN <<>>
    ELSE IF d # "ok" THEN <<>>
    ELSE IF Val(blob).kind # "json" THEN <<>>
    ELSE [i \in 1..Len(Val(blob).success) |-> Val(blob).success[i].gcs_uri]
         \o [i \in 1..Len(Val(blob).failed) |->
                GcsUri(Val(blob).failed[i].symbol)]

\* get_files_to_load: a missing blob raises NotFound, a failed download or
\* json.loads of text that is not JSON raises, and each except clause
\* returns []; otherwise item["gcs_uri"] of every results.success item.
GetFilesToLoad(blob, d) ==
    IF blob = None THEN <<>>
    ELSE IF d # "ok" THEN <<>>
    ELSE IF Val(blob).kind # "json" THEN <<>>
    ELSE [i \in 1..Len(Val(blob).success) |-> Val(blob).success[i].gcs_uri]

\* run() leaves the try block with value v pending, by path w; the finally
\* clause is next.
LeaveTry(v, w) ==
    /\ l_pending' = Some(v)
    /\ l_path' = w
    /\ l_pc' = "finally"

\* main(): loader = AlphaVantageLoader(); loader.run().  __init__ assigns no
\* temp_table_id.  run(): gcs_files = self.get_files_to_load()
LRun ==
    /\ l_pc \in {"idle", "done", "raised"}
    /\ e_pc \in {"idle", "done", "raised"}
    /\ l_runs < MaxRuns
    /\ l_runs' = l_runs + 1
    /\ \E d \in DownloadOutcomes :
         LET blob == bucket[ManifestPath(l_env)] IN
         /\ l_read' = [blob |-> blob, download |-> IF blob = None THEN "NotFound" ELSE d]
         /\ gcs_files' = GetFilesToLoad(blob, d)
    /\ temp_table_id' = None
    /\ load_results' = [success |-> FALSE, loaded_files |-> <<>>,
                        failed_files |-> <<>>]
    /\ move_results' = [moved |-> <<>>, failed |-> <<>>]
    /\ l_pending' = None
    /\ l_ret' = None
    /\ l_path' = "-"
    /\ deletes' = <<>>
    /\ inserts' = <<>>
    /\ l_pc' = "files"
    /\ UNCHANGED <<l_env, blobs, outsideLdr>>

\* if not gcs_files: return 1
LNoFiles ==
    /\ l_pc = "files"
    /\ gcs_files = <<>>
    /\ LeaveTry(1, "no_files")
    /\ UNCHANGED <<l_env, l_runs, l_read, gcs_files, temp_table_id, load_results,
                   move_results, l_ret, deletes,
                   inserts, blobs, outsideLdr>>

\* _load_to_temp(gcs_files): temp_table_name = f"temp_av_load_{uuid4().hex}";
\* self.temp_table_id = temp_table_id; results = {...}
LLoadToTemp ==
    /\ l_pc = "files"
    /\ gcs_files # <<>>
    /\ temp_table_id' = Some(l_runs)
    /\ load_results' = [success |-> TRUE, loaded_files |-> <<>>,
                        failed_files |-> <<>>]
    /\ l_pc' = "load"
    /\ UNCHANGED <<l_env, l_runs, l_read, gcs_files, move_results, l_pending,
                   l_ret, l_path, deletes,
                   inserts, blobs, outsideLdr>>

\* The files _load_to_temp has gone through.
Handled == Len(load_results.loaded_files) + Len(load_results.failed_files)

\* load_table_from_uri(gcs_uri, ...).result(): a file that is no longer
\* under raw/ is not found; one that the loader did not delete may load,
\* be missing all the same, or fail otherwise.
LoadOutcomes(uri) ==
    IF uri \in blobs.deleted THEN {"NotFound"} ELSE {"ok", "NotFound", "error"}

\* One iteration of: for gcs_uri in gcs_uris: load_table_from_uri(...).result()
LLoadFile ==
    /\ l_pc = "load"
    /\ Handled < Len(gcs_files)
    /\ \E o \in LoadOutcomes(gcs_files[Handled + 1]) :
         load_results' =
            IF o = "ok"
            THEN [load_results EXCEPT !.loaded_files = Append(@, gcs_files[Handled + 1])]
            ELSE [load_results EXCEPT !.failed_files = Append(@, gcs_files[Handled + 1])]
    /\ UNCHANGED <<l_env, l_pc, l_runs, l_read, gcs_files, temp_table_id,
                   move_results, l_pending, l_ret, l_path, deletes,
                   inserts, blobs, outsideLdr>>

\* A statement of _load_to_temp outside its inner try (LoadJobConfig, the
\* logging calls) raises: run()'s except Exception returns 1.
LLoadUnexpected ==
    /\ l_pc = "load"
    /\ LeaveTry(1, "unexpected")
    /\ UNCHANGED <<l_env, l_runs, l_read, gcs_files, temp_table_id, load_results,
                   move_results, l_ret, deletes,
                   inserts, blobs, outsideLdr>>

\* After the loop: if not results["loaded_files"]: results["success"] = False;
\* run(): if not load_results["success"]: return 1
LLoadDone ==
    /\ l_pc = "load"
    /\ Handled = Len(gcs_files)
    /\ IF load_results.loaded_files = <<>>
       THEN /\ load_results' = [load_results EXCEPT !.success = FALSE]
            /\ LeaveTry(1, "all_failed")
       ELSE /\ l_pc' = "insert"
            /\ UNCHANGED <<load_results, l_pending, l_path>>
    /\ UNCHANGED <<l_env, l_runs, l_read, gcs_files, temp_table_id, move_results,
                   l_ret, deletes,
                   inserts, blobs, outsideLdr>>

\* transform_success = self._transform_and_insert(...); if not: return 1
LInsert ==
    /\ l_pc = "insert"
    /\ \E inserted \in BOOLEAN :
         /\ inserts' = Append(inserts, [ok |-> inserted])
         /\ IF inserted
            THEN /\ l_pc' = "move"
                 /\ UNCHANGED <<l_pending, l_path>>
            ELSE LeaveTry(1, "insert_failed")
    /\ UNCHANGED <<l_env, l_runs, l_read, gcs_files, temp_table_id, load_results,
                   move_results, l_ret, deletes, blobs, outsideLdr>>

\* The files _move_to_processed has gone through.
MoveHandled == Len(move_results.moved) + Len(move_results.failed)

\* copy_blob(source_blob, bucket, dest_path) then source_blob.delete(): the
\* copy may raise NotFound or another exception, and so may the delete,
\* after the copy was made.
MoveOutcomes(uri) ==
    IF uri \in blobs.deleted THEN {"NotFound"}
    ELSE {"ok", "NotFound", "copy_error", "delete_error"}

\* Mutant: every listed file is moved, loaded or not.
MoveListAll == gcs_files

\* The list run() hands to _move_to_processed.
MoveList == load_results.loaded_files

\* One iteration of _move_to_processed(load_results["loaded_files"])
LMoveFile ==
    /\ l_pc = "move"
    /\ MoveHandled < Len(MoveList)
    /\ LET uri == MoveList[MoveHandled + 1] IN
       \E o \in MoveOutcomes(uri) :
         /\ move_results' =
               IF o = "ok"
               THEN [move_results EXCEPT !.moved = Append(@, uri)]
               ELSE [move_results EXCEPT !.failed = Append(@, uri)]
         /\ blobs' =
               IF o = "ok"
               THEN [copied |-> blobs.copied \cup {uri},
                     deleted |-> blobs.deleted \cup {uri}]
               ELSE IF o = "delete_error"
               THEN [blobs EXCEPT !.copied = @ \cup {uri}]
               ELSE blobs
    /\ UNCHANGED <<l_env, l_pc, l_runs, l_read, gcs_files, temp_table_id,
                   load_results, l_pending, l_ret, l_path, deletes, inserts,
                   outsideLdr>>

\* The summary is logged; return 0
LMoveDone ==
    /\ l_pc = "move"
    /\ MoveHandled = Len(MoveList)
    /\ LeaveTry(0, "success")
    /\ UNCHANGED <<l_env, l_runs, l_read, gcs_files, temp_table_id, load_results,
                   move_results, l_ret, deletes,
                   inserts, blobs, outsideLdr>>

\* Mutant: an exception of delete_table is not caught.
CleanupUncaught(tid, deleted) ==
    IF tid = None THEN [called |-> FALSE, raised |-> TRUE]
    ELSE [called |-> TRUE, raised |-> ~deleted]

\* _cleanup_temp_table for the attribute tid and a delete_table that
\* succeeds or raises: reading an attribute that was never assigned raises
\* AttributeError before the try; an exception of delete_table is caught.
Cleanup(tid, deleted) ==
    IF tid = None THEN [called |-> FALSE, raised |-> TRUE]
    ELSE [called |-> TRUE, raised |-> FALSE]

\* finally: self._cleanup_temp_table(); then the pending return takes
\* effect, unless the finally clause raised.
LFinally ==
    /\ l_pc = "finally"
    /\ \E deleted \in BOOLEAN :
         LET c == Cleanup(temp_table_id, deleted) IN
         /\ deletes' = IF c.called
                       THEN Append(deletes, [table |-> Val(temp_table_id),
                                             ok |-> deleted])
                       ELSE deletes
         /\ l_pc' = IF c.raised THEN "raised" ELSE "done"
         /\ l_ret' = IF c.raised THEN None ELSE l_pending
    /\ UNCHANGED <<l_env, l_runs, l_read, gcs_files, temp_table_id, load_results,
                   move_results, l_pending, l_path, inserts, blobs,
                   outsideLdr>>

\* The symbols whose upload and patch succeed or whose patch fails: what the
\* extractor meets while the pipeline is followed end to end.
PipeOutcomes ==
    {o \in ExtractOutcomes : o.data = "frame" /\ o.upload = "ok"}

\* The extractor's run() is started while the loader is not running.
PRun ==
    /\ l_pc \in {"idle", "done", "raised"}
    /\ ERun

PExtract == EExtractFrom(PipeOutcomes)

\* The two processes are started with their own MODE and run date; the
\* bucket is empty or holds a blob that is not a manifest at the loader's
\* manifest path.
InitPipeline ==
    /\ InitIol({Main}, EmptyCache)
    /\ credsSet = TRUE
    /\ \E env \in Envs :
         \E lenv \in Envs :
           \E b \in {EmptyBucket,
                     [EmptyBucket EXCEPT ![ManifestPath(lenv)] = Some(Garbage)]} :
             /\ InitExtIn(env, b)
             /\ InitLdrIn(lenv)
    /\ InitBqIn(TRUE)
    /\ InitAv
    /\ InitCl
    /\ InitLc

NextPipeline ==
    \/ PRun
    \/ PExtract
    \/ EWriteManifest
    \/ EReturn
    \/ LRun
    \/ LNoFiles
    \/ LLoadToTemp
    \/ LLoadFile
    \/ LLoadUnexpected
    \/ LLoadDone
    \/ LInsert
    \/ LMoveFile
    \/ LMoveDone
    \/ LFinally

SpecPipeline == InitPipeline /\ [][NextPipeline]_vars

\* run() has ended, by a return or by an exception.
LoaderEnded == l_pc \in {"done", "raised"}

\* C12: run returns 0 or 1 and does not raise; with the manifest missing,
\* unreadable or without successful files it returns 1.
C12_RunReturns ==
    LoaderEnded =>
        /\ l_pc = "done"
        /\ l_ret \in {Some(0), Some(1)}
        /\ gcs_files = <<>> => l_ret = Some(1)

\* C13: when _load_to_temp allocated a temp table id, delete_table is called
\* on that table exactly once, in the finally clause and not before; run then
\* returns, with 0 after the success path and 1 after every other path,
\* whether or not the delete raised.
C13_TempTableDeletedOnce ==
    /\ (temp_table_id # None /\ ~LoaderEnded) => deletes = <<>>
    /\ (temp_table_id # None /\ LoaderEnded) =>
          /\ Len(deletes) = 1
          /\ deletes[1].table = temp_table_id[1]
          /\ l_pc = "done"
          /\ l_path \in {"all_failed", "insert_failed", "success", "unexpected"}
          /\ l_ret = Some(IF l_path = "success" THEN 0 ELSE 1)

\* C13 witness: the INSERT failed, the delete of the temp table raised, and
\* run returned 1.
C13_Witness ==
    /\ l_pc = "done"
    /\ l_path = "insert_failed"
    /\ Len(deletes) = 1
    /\ ~deletes[1].ok
    /\ l_ret = Some(1)

\* The loader, with the extractor's MODE and run date, downloaded the blob
\* that the extractor's run wrote.
ReadExtractorManifest ==
    /\ l_pc # "idle"
    /\ e_pc \in {"written", "done"}
    /\ l_env = e_env
    /\ l_read.download = "ok"
    /\ l_read.blob = bucket[ManifestPath(e_env)]

----------------------------------------------------------------------------
(* cloud_run_job/bq.py: bq_batch_load_handler and bq_load_data              *)
(*                                                                         *)
(* A record of the 'symbols' list is written by what the validation tests  *)
(* see in it: its structure, and for a list of 4 elements what ticker,     *)
(* value, market and date are.                                             *)

\* A record that passes every test: ticker t, value a number ("number") or a
\* string that float() converts ("numeric_str").
ValidRecord(t, v) ==
    [shape |-> "list4", ticker |-> t, value |-> v, market |-> "US",
     date |-> "iso"]

\* The records of the requests: the valid ones, and records with a defect:
\* not a list or not of length 4; ticker or market blank or not a string;
\* value a string float() rejects or None; date a string in another format
\* or not a string; and records with two defects.
BqRecords ==
    LET base == ValidRecord("T1", "number") IN
    {ValidRecord(t, v) : t \in {"T1", "T2"}, v \in {"number", "numeric_str"}}
    \cup {[base EXCEPT !.shape = x] : x \in {"not_list", "short"}}
    \cup {[base EXCEPT !.ticker = x] : x \in {"blank", "nonstr"}}
    \cup {[base EXCEPT !.value = x] : x \in {"text", "null"}}
    \cup {[base EXCEPT !.market = x] : x \in {"blank", "nonstr"}}
    \cup {[base EXCEPT !.date = x] : x \in {"bad_format", "nonstr"}}
    \cup {[base EXCEPT !.ticker = "blank", !.date = "nonstr"],
          [base EXCEPT !.value = "text", !.date = "bad_format"]}

SymbolLists == UNION {[1..n -> BqRecords] : n \in 0..MaxRec}

\* The requests: method, content type, and the JSON payload: empty, without
\* 'symbols', with 'symbols' not a list, or with a 'symbols' list.
BqRequests ==
    [method : {"POST", "GET"},
     content_type : {"application/json", "text/plain"},
     payload : {"empty", "no_symbols", "symbols_not_list"},
     symbols : {<<>>}]
    \cup [method : {"POST", "GET"},
          content_type : {"application/json", "text/plain"},
          payload : {"symbols"},
          symbols : SymbolLists]

\* The tests of one loop iteration, in their order: the name of the first
\* that fails, "TypeError" when datetime.strptime is given a date that is not
\* a string (only ValueError is caught around it), "ok" otherwise.
ValidateRecord(rec) ==
    IF rec.shape # "list4" THEN "structure"
    ELSE IF rec.ticker \in {"blank", "nonstr"} THEN "ticker"
    ELSE IF rec.value \in {"text", "null"} THEN "value"
    ELSE IF rec.market \in {"blank", "nonstr"} THEN "market"
    ELSE IF rec.date = "bad_format" THEN "date"
    ELSE IF rec.date = "nonstr" THEN "TypeError"
    ELSE "ok"

\* processed_rows.append([ticker, value, market, date_string]): value is the
\* float of a string that was converted.
Row(rec) ==
    [ticker |-> rec.ticker,
     value |-> IF rec.value = "numeric_str" THEN "float" ELSE rec.value,
     market |-> rec.market,
     date |-> rec.date]

\* csv_writer.writerow(row): one line of four fields.
CsvLine(row) == <<row.ticker, row.value, row.market, row.date>>

CsvLines(rows) == [i \in 1..Len(rows) |-> CsvLine(rows[i])]

\* The loop of bq_load_data ended: the status to return (0 to go on), the
\* failed test, the reported index and processed_rows.
LoopEnd(st, err, idx, rows) ==
    [status |-> st, error |-> err, index |-> idx, rows |-> rows]

\* Mutant: an invalid record is skipped and the rest is loaded.
RECURSIVE ProcessFromSkipInvalid(_, _, _)
ProcessFromSkipInvalid(syms, i, rows) ==
    IF i > Len(syms) THEN LoopEnd(0, "-", 0, rows)
    ELSE IF ValidateRecord(syms[i]) = "ok"
         THEN ProcessFromSkipInvalid(syms, i + 1, Append(rows, Row(syms[i])))
         ELSE ProcessFromSkipInvalid(syms, i + 1, rows)

\* for i, record in enumerate(symbols_data): the first failed test returns
\* 400 with the index (from 0) of the record; an exception other than the
\* caught ones reaches except Exception and returns 500.
RECURSIVE ProcessFrom(_, _, _)
ProcessFrom(syms, i, rows) ==
    IF i > Len(syms) THEN LoopEnd(0, "-", 0, rows)
    ELSE LET v == ValidateRecord(syms[i]) IN
         IF v = "ok" THEN ProcessFrom(syms, i + 1, Append(rows, Row(syms[i])))
         ELSE IF v = "TypeError" THEN LoopEnd(500, "exception", 0, rows)
         ELSE LoopEnd(400, v, i - 1, rows)

BqResponse(st, err, idx) == [status |-> st, error |-> err, index |-> idx]

\* bq_batch_load_handler(request) up to the point where bq_load_data has
\* its processed_rows: 405, 400 for the payload, 500 without the environment
\* variables, the result of the loop, 200 for no rows, or on to the load.
\* The handler keeps nothing between requests, so one request is followed.
BqHandle ==
    /\ bq_pc = "idle"
    /\ \E req \in BqRequests :
         /\ bq_req' = req
         /\ bq_jobs' = <<>>
         /\ IF req.method # "POST" \/ req.content_type # "application/json"
            THEN /\ bq_resp' = BqResponse(405, "method", 0)
                 /\ bq_rows' = <<>>
                 /\ bq_pc' = "done"
            ELSE IF req.payload # "symbols"
            THEN /\ bq_resp' = BqResponse(400, "payload", 0)
                 /\ bq_rows' = <<>>
                 /\ bq_pc' = "done"
            ELSE IF ~bq_env
            THEN /\ bq_resp' = BqResponse(500, "environment", 0)
                 /\ bq_rows' = <<>>
                 /\ bq_pc' = "done"
            ELSE LET r == ProcessFrom(req.symbols, 1, <<>>) IN
                 IF r.status # 0
                 THEN /\ bq_resp' = BqResponse(r.status, r.error, r.index)
                      /\ bq_rows' = r.rows
                      /\ bq_pc' = "done"
                 ELSE IF r.rows = <<>>
                 THEN /\ bq_resp' = BqResponse(200, "no_data", 0)
                      /\ bq_rows' = <<>>
                      /\ bq_pc' = "done"
                 ELSE /\ bq_resp' = NoBqResponse
                      /\ bq_rows' = r.rows
                      /\ bq_pc' = "load"
    /\ UNCHANGED <<bq_env, outsideBq>>

\* client = bigquery.Client(); job = client.load_table_from_file(csv_buffer,
\* ...); job.result(): the job loads the CSV lines, or an exception gives 500.
BqLoadJob ==
    /\ bq_pc = "load"
    /\ \E loaded \in BOOLEAN :
         /\ bq_jobs' = Append(bq_jobs, [lines |-> CsvLines(bq_rows),
                                        loaded |-> loaded])
         /\ IF loaded
            THEN bq_pc' = "get_table" /\ bq_resp' = bq_resp
            ELSE bq_pc' = "done" /\ bq_resp' = BqResponse(500, "bigquery", 0)
    /\ UNCHANGED <<bq_env, bq_req, bq_rows, outsideBq>>

\* table = client.get_table(table_id); return 200, or 500 on an exception.
BqGetTable ==
    /\ bq_pc = "get_table"
    /\ \E found \in BOOLEAN :
         bq_resp' = IF found THEN BqResponse(200, "loaded", 0)
                    ELSE BqResponse(500, "bigquery", 0)
    /\ bq_pc' = "done"
    /\ UNCHANGED <<bq_env, bq_req, bq_rows, bq_jobs, outsideBq>>

InitBq ==
    /\ InitIol({Main}, EmptyCache)
    /\ credsSet = TRUE
    /\ InitExt
    /\ InitLdrIn(DefaultEnv)
    /\ \E envset \in BOOLEAN : InitBqIn(envset)
    /\ InitAv
    /\ InitCl
    /\ InitLc

NextBq ==
    \/ BqHandle
    \/ BqLoadJob
    \/ BqGetTable

SpecBq == InitBq /\ [][NextBq]_vars

\* A record fails validation, in the words of the claim.
FailsValidation(rec) ==
    \/ rec.shape \in {"not_list", "short"}
    \/ rec.ticker \in {"blank", "nonstr"}
    \/ rec.market \in {"blank", "nonstr"}
    \/ rec.value \in {"text", "null"}
    \/ rec.date \in {"bad_format", "nonstr"}

\* The request reached the validation loop of bq_load_data.
ReachedValidation ==
    /\ bq_pc # "idle"
    /\ bq_env
    /\ bq_req.method = "POST"
    /\ bq_req.content_type = "application/json"
    /\ bq_req.payload = "symbols"

\* The position of the first record of the request that fails validation.
FirstInvalid ==
    CHOOSE i \in 1..Len(bq_req.symbols) :
        /\ FailsValidation(bq_req.symbols[i])
        /\ \A j \in 1..(i - 1) : ~FailsValidation(bq_req.symbols[j])

\* C15: a request with a record that fails validation is answered 400, never
\* 500, and the response reports the first such record in input order.
C15_InvalidRecordIs400 ==
    (ReachedValidation
     /\ \E i \in 1..Len(bq_req.symbols) : FailsValidation(bq_req.symbols[i])) =>
        /\ bq_pc = "done"
        /\ bq_resp.status = 400
        /\ bq_resp.index = FirstInvalid - 1

\* The line the load job must carry for a record.
ExpectedLine(rec) ==
    <<rec.ticker, IF rec.value = "number" THEN "number" ELSE "float",
      rec.market, rec.date>>

\* C16: a load job is started only for a POST with content type
\* application/json whose 'symbols' is a list of records that all passed
\* validation, and it carries one row per record in input order; a request
\* answered 405 or 400, or 200 for an empty list, makes no BigQuery call.
C16_LoadOnlyWholeValidBatch ==
    /\ Len(bq_jobs) <= 1
    /\ bq_jobs # <<>> =>
          /\ ReachedValidation
          /\ \A i \in 1..Len(bq_req.symbols) : ~FailsValidation(bq_req.symbols[i])
          /\ Len(bq_jobs[1].lines) = Len(bq_req.symbols)
          /\ \A i \in 1..Len(bq_req.symbols) :
                bq_jobs[1].lines[i] = ExpectedLine(bq_req.symbols[i])
    /\ (bq_pc = "done" /\ bq_resp.status \in {405, 400}) => bq_jobs = <<>>
    /\ (bq_pc = "done" /\ bq_req.symbols = <<>>) => bq_jobs = <<>>
    /\ (bq_pc = "done" /\ ReachedValidation /\ bq_req.symbols = <<>>) =>
          bq_resp.status = 200

\* C16 witness: a batch of MaxRec different valid records, one of them with
\* a value given as a string, was loaded and answered 200.
C16_Witness ==
    /\ bq_pc = "done"
    /\ bq_resp.status = 200
    /\ Len(bq_jobs) = 1
    /\ Len(bq_jobs[1].lines) = MaxRec
    /\ bq_jobs[1].lines[1] # bq_jobs[1].lines[2]
    /\ \E i \in 1..Len(bq_req.symbols) : bq_req.symbols[i].value = "numeric_str"

----------------------------------------------------------------------------
(* cloud_run_job/alphavantage.py: alpha_vantage_handler, with              *)
(* ALPHA_VANTAGE_API_TOKEN and ALPHA_VANTAGE_API_URL set                    *)

\* The symbols of a request: the empty string and two tickers.
AvSymbols == {"", "AAPL", "MSFT"}

\* GET has request.args.get("symbol") or ""; POST has the 'symbols' list of
\* its JSON body, [] when the key is absent.
AvRequests ==
    [method : {"GET"}, symbols : {<<x>> : x \in AvSymbols}]
    \cup [method : {"POST"},
          symbols : UNION {[1..n -> AvSymbols] : n \in 0..MaxAvSym}]

\* What requests.get and the body of the answer can be: an exception of
\* requests, a body that is not JSON, a JSON object without "Meta Data" or
\* "Time Series (Daily)", one whose last refreshed date has no data point,
\* and a complete one.
UpstreamOutcomes ==
    {"network_error", "not_json", "missing_sections", "no_latest", "complete"}

\* The value of the handler's local symbol_data.
Unbound == [state |-> "unbound", ticker |-> "-"]
NoStock == [state |-> "none", ticker |-> "-"]
Stock(sym) == [state |-> "stock", ticker |-> sym]

\* An exception left _get_symbol_latest.
Raised == [state |-> "raised", ticker |-> "-"]

\* _get_symbol_latest(symbol): None for an empty symbol and for a
\* RequestException; response.json() raises a ValueError that the function's
\* except KeyError does not catch; None without the sections or the latest
\* data point; otherwise the stock dict.
GetSymbolLatest(sym, o) ==
    IF sym = "" THEN NoStock
    ELSE IF o = "network_error" THEN NoStock
    ELSE IF o = "not_json" THEN Raised
    ELSE IF o \in {"missing_sections", "no_latest"} THEN NoStock
    ELSE Stock(sym)

\* alpha_vantage_handler(request): the request arrives; symbol_data is not
\* yet bound.  The handler keeps nothing between requests.
AvRequest ==
    /\ av_pc = "idle"
    /\ \E req \in AvRequests :
         /\ av_req' = req
         /\ av_left' = req.symbols
    /\ symbol_data' = Unbound
    /\ av_pc' = "fetch"
    /\ UNCHANGED <<av_resp, outsideAv>>

\* symbol_data = _get_symbol_latest(symbol), for the symbol of a GET and for
\* each symbol of a POST in turn.
AvFetch ==
    /\ av_pc = "fetch"
    /\ av_left # <<>>
    /\ \E o \in UpstreamOutcomes :
         LET r == GetSymbolLatest(Head(av_left), o) IN
         IF r = Raised
         THEN /\ av_resp' = "raised"
              /\ av_pc' = "done"
              /\ UNCHANGED <<symbol_data, av_left>>
         ELSE /\ symbol_data' = r
              /\ av_left' = Tail(av_left)
              /\ UNCHANGED <<av_resp, av_pc>>
    /\ UNCHANGED <<av_req, outsideAv>>

\* if symbol_data is None: return 500; return jsonify(symbol_data).  Reading
\* a symbol_data that no loop iteration bound raises UnboundLocalError.
AvRespond ==
    /\ av_pc = "fetch"
    /\ av_left = <<>>
    /\ av_resp' = IF symbol_data = Unbound THEN "raised"
                  ELSE IF symbol_data = NoStock THEN "500"
                  ELSE "200"
    /\ av_pc' = "done"
    /\ UNCHANGED <<av_req, av_left, symbol_data, outsideAv>>

InitAvHandler ==
    /\ InitIol({Main}, EmptyCache)
    /\ credsSet = TRUE
    /\ InitExt
    /\ InitOther

NextAv ==
    \/ AvRequest
    \/ AvFetch
    \/ AvRespond

SpecAv == InitAvHandler /\ [][NextAv]_vars

\* C17: the handler answers every GET or POST with a response and never
\* raises: the stock JSON, or a JSON error body with an error status.
C17_AlwaysResponds ==
    av_pc = "done" => av_resp \in {"200", "500"}

----------------------------------------------------------------------------
(* packages/alphavantage/client.py: AlphaVantageClient.get_latest_daily     *)

\* The argument: None ("none"), the empty string, or a ticker.
ClSymbols == {"none", "", "AAPL", "MSFT"}

\* The answers to requests.get(...): an exception of requests; an error
\* status; a 200 whose body is not JSON, is JSON but not an object, or is an
\* object.  An object has "Meta Data" missing, empty, a dict without or with
\* "3. Last Refreshed", or a value that is not a dict; and "Time Series
\* (Daily)" missing, or a dict in which the entry of the last refreshed date
\* is absent, has a numeric "4. close", a non-numeric one, none, or is not a
\* dict.
HttpResponses ==
    [status : {"network_error", "http_error"}, body : {"-"}, meta : {"-"},
     series : {"-"}]
    \cup [status : {"200"}, body : {"not_json", "not_object"}, meta : {"-"},
          series : {"-"}]
    \cup [status : {"200"}, body : {"object"},
          meta : {"missing", "empty", "no_date", "date", "not_dict"},
          series : {"missing", "no_entry", "numeric", "non_numeric",
                    "no_close", "entry_not_dict"}]

\* _parse_daily_response(response_data, symbol), statement by statement; an
\* AttributeError of .get on a value that is not a dict is caught nowhere.
ParseDailyResponse(h) ==
    IF h.body = "not_object" THEN "raised"
    ELSE IF h.meta \in {"missing", "empty"} \/ h.series = "missing" THEN "none"
    ELSE IF h.meta = "not_dict" THEN "raised"
    ELSE IF h.meta = "no_date" \/ h.series = "no_entry" THEN "none"
    ELSE IF h.series = "entry_not_dict" THEN "raised"
    ELSE IF h.series \in {"non_numeric", "no_close"} THEN "none"
    ELSE "dict"

\* The try block of get_latest_daily for the answer h: RequestException
\* (raise_for_status included) and the ValueError of response.json() return
\* None.
AfterResponse(h) ==
    IF h.status # "200" THEN "none"
    ELSE IF h.body = "not_json" THEN "none"
    ELSE ParseDailyResponse(h)

\* get_latest_daily(symbol): if not symbol: return None
ClCall ==
    /\ cl_pc = "idle"
    /\ \E sym \in ClSymbols :
         /\ cl_symbol' = sym
         /\ IF sym \in {"none", ""}
            THEN cl_pc' = "done" /\ cl_ret' = "none"
            ELSE cl_pc' = "send" /\ cl_ret' = cl_ret
    /\ UNCHANGED <<cl_http, cl_sent, outsideCl>>

\* response = requests.get(self.api_url, params=params, timeout=10)
ClSend ==
    /\ cl_pc = "send"
    /\ cl_sent' = cl_sent + 1
    /\ \E h \in HttpResponses : cl_http' = h
    /\ cl_pc' = "received"
    /\ UNCHANGED <<cl_symbol, cl_ret, outsideCl>>

\* raise_for_status(); response.json(); return self._parse_daily_response(...)
ClReturn ==
    /\ cl_pc = "received"
    /\ cl_ret' = AfterResponse(cl_http)
    /\ cl_pc' = "done"
    /\ UNCHANGED <<cl_symbol, cl_http, cl_sent, outsideCl>>

InitClient ==
    /\ InitIol({Main}, EmptyCache)
    /\ credsSet = TRUE
    /\ InitExt
    /\ InitOther

NextClient ==
    \/ ClCall
    \/ ClSend
    \/ ClReturn

SpecClient == InitClient /\ [][NextClient]_vars

\* C18: get_latest_daily never raises; it returns the dict for a response
\* with "Meta Data" and a data point of the last refreshed date with a
\* numeric close; None for an HTTP error status, a non-JSON body or a
\* response without those sections; and None without any HTTP request for an
\* empty or None symbol.
C18_NeverRaises ==
    cl_pc = "done" =>
        /\ cl_ret \in {"none", "dict"}
        /\ cl_symbol \in {"none", ""} => cl_ret = "none" /\ cl_sent = 0
        /\ (cl_http.meta = "date" /\ cl_http.series = "numeric") => cl_ret = "dict"
        /\ cl_http.status = "http_error" => cl_ret = "none"
        /\ cl_http.body = "not_json" => cl_ret = "none"
        /\ (cl_http.meta = "missing" \/ cl_http.series = "missing") =>
               cl_ret = "none"

----------------------------------------------------------------------------
(* lecaps-scraper-job/main.py: the endpoints / and /test, main() and        *)
(* load_data_to_bigquery (etl/loader.py of the migration has the same      *)
(* statements up to bigquery.Client()).                                     *)

\* A request and what the scraping steps of main() yield for it: a step
\* that returns nothing ("fail"), an exception ("raises"), or the two row
\* lists, given by their lengths; and whether a BigQuery project id is set.
LcRequests ==
    [endpoint : {"/", "/test"}, dry_run : BOOLEAN, scrape : {"fail", "raises"},
     fixed_income_rows : {0}, daily_values_rows : {0}, project_id : BOOLEAN]
    \cup [endpoint : {"/", "/test"}, dry_run : BOOLEAN, scrape : {"ok"},
          fixed_income_rows : 0..MaxRows, daily_values_rows : 0..MaxRows,
          project_id : BOOLEAN]

\* Mutant: /test reads the dry_run query parameter as / does.
DryRunOfParameter(req) == req.dry_run

\* get_report_data: dry_run = request.args.get('dry_run', 'false').lower()
\* == 'true'; get_report_data_html: main(dry_run=True).
DryRunOf(req) ==
    IF req.endpoint = "/test" THEN TRUE ELSE req.dry_run

\* A request arrives; main(dry_run) runs its scraping steps.  A step that
\* yields nothing returns an error tuple and an exception reaches the
\* endpoint's except clause: 500 either way.
LcRequest ==
    /\ lc_pc = "idle"
    /\ \E req \in LcRequests :
         /\ lc_req' = req
         /\ lc_dry' = DryRunOf(req)
         /\ IF req.scrape = "ok"
            THEN lc_pc' = "load_data" /\ lc_resp' = lc_resp
            ELSE lc_pc' = "done" /\ lc_resp' = "500"
    /\ UNCHANGED <<lc_cur, lc_calls, outsideLc>>

\* load_data_to_bigquery up to bigquery.Client(): return with no rows, raise
\* RuntimeError without a project id, log and return on dry_run.
LcLoadData ==
    /\ lc_pc = "load_data"
    /\ IF lc_req.fixed_income_rows = 0 /\ lc_req.daily_values_rows = 0
       THEN lc_pc' = "done" /\ lc_resp' = "200"
       ELSE IF ~lc_req.project_id
       THEN lc_pc' = "done" /\ lc_resp' = "500"
       ELSE IF lc_dry
       THEN lc_pc' = "done" /\ lc_resp' = "200"
       ELSE lc_pc' = "client" /\ lc_resp' = lc_resp
    /\ UNCHANGED <<lc_req, lc_dry, lc_cur, lc_calls, outsideLc>>

\* client = bigquery.Client(); if fixed_income_rows: _load_and_transform(...)
\* (the daily values are loaded inside that if).
LcClient ==
    /\ lc_pc = "client"
    /\ lc_calls' = Append(lc_calls, "Client")
    /\ \E created \in BOOLEAN :
         IF ~created
         THEN lc_pc' = "done" /\ lc_resp' = "500" /\ lc_cur' = lc_cur
         ELSE IF lc_req.fixed_income_rows > 0
         THEN /\ lc_pc' = "lt_load"
              /\ lc_cur' = [rows |-> "fixed_income", failed |-> "-", error |-> "-"]
              /\ lc_resp' = lc_resp
         ELSE lc_pc' = "done" /\ lc_resp' = "200" /\ lc_cur' = lc_cur
    /\ UNCHANGED <<lc_req, lc_dry, outsideLc>>

\* etl/loader.py of the migration: final_query = '' before the try, so the
\* except clause logs and re-raises the exception of the call.
ExceptClauseBound(cur, call) ==
    [cur EXCEPT !.failed = call, !.error = call]

\* except Exception as e: logging.error(...); logging.info(final_query);
\* raise.  final_query is assigned in the try, after update_table: when an
\* earlier call raised, reading it raises UnboundLocalError, which leaves
\* the function in place of the exception of the call.
ExceptClause(cur, call) ==
    [cur EXCEPT !.failed = call,
                !.error = IF call = "query" THEN call ELSE "UnboundLocalError"]

\* _load_and_transform: load_table_from_json(rows, temp_table_id).result()
LcLoad ==
    /\ lc_pc = "lt_load"
    /\ lc_calls' = Append(lc_calls, "load_table_from_json")
    /\ \E loaded \in BOOLEAN :
         IF loaded
         THEN lc_pc' = "lt_expiry" /\ lc_cur' = lc_cur
         ELSE lc_pc' = "lt_delete" /\ lc_cur' = ExceptClause(lc_cur, "load")
    /\ UNCHANGED <<lc_req, lc_dry, lc_resp, outsideLc>>

\* temp_table = client.get_table(...); client.update_table(temp_table, ...)
LcSetExpiry ==
    /\ lc_pc = "lt_expiry"
    /\ \E o \in {"ok", "get_table_raises", "update_table_raises"} :
         /\ lc_calls' = IF o = "get_table_raises"
                        THEN Append(lc_calls, "get_table")
                        ELSE lc_calls \o <<"get_table", "update_table">>
         /\ IF o = "ok"
            THEN lc_pc' = "lt_query" /\ lc_cur' = lc_cur
            ELSE /\ lc_pc' = "lt_delete"
                 /\ lc_cur' = ExceptClause(lc_cur, IF o = "get_table_raises"
                                                   THEN "get_table"
                                                   ELSE "update_table")
    /\ UNCHANGED <<lc_req, lc_dry, lc_resp, outsideLc>>

\* query_job = client.query(final_query); query_job.result()
LcQuery ==
    /\ lc_pc = "lt_query"
    /\ lc_calls' = Append(lc_calls, "query")
    /\ \E done \in BOOLEAN :
         /\ lc_cur' = IF done THEN lc_cur ELSE ExceptClause(lc_cur, "query")
    /\ lc_pc' = "lt_delete"
    /\ UNCHANGED <<lc_req, lc_dry, lc_resp, outsideLc>>

\* finally: client.delete_table(temp_table_id, not_found_ok=True).  A pending
\* exception, or one of delete_table, reaches the endpoint: 500.  Otherwise
\* the daily values follow the fixed income rows, or main() returns.
LcDelete ==
    /\ lc_pc = "lt_delete"
    /\ lc_calls' = Append(lc_calls, "delete_table")
    /\ \E deleted \in BOOLEAN :
         IF lc_cur.error # "-" \/ ~deleted
         THEN /\ lc_pc' = "done"
              /\ lc_resp' = "500"
              /\ lc_cur' = IF deleted THEN lc_cur
                           ELSE [lc_cur EXCEPT !.error = "delete_table"]
         ELSE IF lc_cur.rows = "fixed_income" /\ lc_req.daily_values_rows > 0
         THEN /\ lc_pc' = "lt_load"
              /\ lc_cur' = [rows |-> "daily_values", failed |-> "-", error |-> "-"]
              /\ lc_resp' = lc_resp
         ELSE /\ lc_pc' = "done"
              /\ lc_resp' = "200"
              /\ lc_cur' = lc_cur
    /\ UNCHANGED <<lc_req, lc_dry, outsideLc>>

InitLecaps ==
    /\ InitIol({Main}, EmptyCache)
    /\ credsSet = TRUE
    /\ InitExt
    /\ InitOther

NextLecaps ==
    \/ LcRequest
    \/ LcLoadData
    \/ LcClient
    \/ LcLoad
    \/ LcSetExpiry
    \/ LcQuery
    \/ LcDelete

SpecLecaps == InitLecaps /\ [][NextLecaps]_vars

\* C19: with dry_run true no BigQuery client is created and no load, query,
\* update or delete call is made; a request to /test always runs with
\* dry_run true, so it makes no BigQuery call.
C19_DryRunNoBigQuery ==
    /\ (lc_pc # "idle" /\ lc_dry) => lc_calls = <<>>
    /\ (lc_pc # "idle" /\ lc_req.endpoint = "/test") =>
          /\ lc_dry
          /\ lc_calls = <<>>

\* C19 witness: a /test request whose dry_run parameter is false, with rows
\* to load and a project id, was answered 200 without a BigQuery call.
C19_Witness ==
    /\ lc_pc = "done"
    /\ lc_req.endpoint = "/test"
    /\ ~lc_req.dry_run
    /\ lc_req.fixed_income_rows > 0
    /\ lc_req.project_id
    /\ lc_resp = "200"
    /\ lc_calls = <<>>

----------------------------------------------------------------------------
(* The retry of _make_authenticated_api_call (Spec) *)

\* The positions of the GET requests in the invocation's log.
GetPositions(p) == {i \in 1..Len(log[p]) : IsGet(log[p][i])}

\* The 401 branch of _make_authenticated_api_call has invalidated the token
\* and the retry's get_valid_access_token is about to test the cache.
Invalidated(p) ==
    /\ op[p] = "api"
    /\ attempt[p] = 2
    /\ pc[p] = "g_check"

\* In every state of a call that received a 401: the token and its expiry
\* are gone when the retry tests the cache, the cached branch is not taken,
\* and a second GET comes right after a token request that succeeded.
RetryStates ==
    /\ (op[Main] = "api" /\ pc[Main] = "a_inval_ea") => cache.access_token = None
    /\ Invalidated(Main) =>
          /\ cache.access_token = None
          /\ cache.expires_at = None
    /\ (op[Main] = "api" /\ attempt[Main] = 2) => pc[Main] # "g_cached"
    /\ (op[Main] = "api" /\ Cardinality(GetPositions(Main)) = 2) =>
          LET first == CHOOSE i \in GetPositions(Main) :
                           \A j \in GetPositions(Main) : i <= j
              second == CHOOSE i \in GetPositions(Main) :
                           \A j \in GetPositions(Main) : j <= i
          IN /\ log[Main][first].res = "401"
             /\ second > first + 1
             /\ IsTokenRequest(log[Main][second - 1])
             /\ log[Main][second - 1].res = "ok"

\* In every step of such a call: the two statements of the 401 branch leave
\* refresh_token as it was, and the second GET carries the access_token of
\* the token response the retry obtained.
RetrySteps ==
    /\ pc[Main] \in {"a_inval_at", "a_inval_ea"} =>
          cache'.refresh_token = cache.refresh_token
    /\ (pc[Main] = "a_tok" /\ attempt[Main] = 2 /\ pc'[Main] = "a_resp") =>
          /\ Truthy(resp[Main].access_token)
          /\ log'[Main][Len(log'[Main])].kind = "get"
          /\ log'[Main][Len(log'[Main])].tok = resp[Main].access_token

\* C20: on a 401 from the first GET, access_token and expires_at are set to
\* None and refresh_token is left unchanged; the retry's
\* get_valid_access_token never takes the cached branch; a refresh or
\* credentials request is sent between the 401 and the second GET, and the
\* second GET carries the token of that response, not one read from the
\* cache as it stood before the 401.
C20_RetryReauthenticates == [](RetryStates) /\ [][RetrySteps]_vars

\* C20 witness: the first GET was answered 401, the retry refreshed the
\* token, and the second GET succeeded with it.
C20_Witness ==
    /\ op[Main] = "api"
    /\ pc[Main] = "done"
    /\ ret[Main] = "data"
    /\ Len(log[Main]) = 3
    /\ log[Main][1].kind = "get" /\ log[Main][1].res = "401"
    /\ log[Main][2].kind = "refresh" /\ log[Main][2].res = "ok"
    /\ log[Main][3].kind = "get" /\ log[Main][3].res = "ok"

----------------------------------------------------------------------------
(* A refresh token the token endpoint rejected (Spec) *)

\* The refresh request of the current get_valid_access_token call failed.
RefreshFailedInCall(p) ==
    \E i \in (gstart[p] + 1)..Len(log[p]) :
        log[p][i].kind = "refresh" /\ log[p][i].res = "fail"

\* The call is at, or past, the credentials request that follows the
\* failed refresh.
AtCredentials(p) == pc[p] \in {"c_send", "c_resp"}

\* C21: if the refresh request fails, get_valid_access_token has set
\* access_token, refresh_token and expires_at to None when it sends the
\* credentials request of the same call; under sequential use no refresh
\* request carries a refresh token that a refresh request failed with and
\* that no token response has replaced since.
C21_RejectedRefreshTokenDropped ==
    /\ (InGvat(Main) /\ RefreshFailedInCall(Main) /\ AtCredentials(Main)) =>
          cache = EmptyCache
    /\ pc[Main] \in {"r_send", "idle", "done"} => ~stale
    /\ (pc[Main] = "r_resp" /\ log[Main][Len(log[Main])].res = "pending") =>
          ~stale

\* C21 witness: the refresh failed, the cache was cleared and the
\* credentials request of the same call is in flight.
C21_Witness ==
    LET t == TokenRequests(Main) IN
    /\ pc[Main] = "c_resp"
    /\ Len(t) = 2
    /\ t[1].kind = "refresh" /\ t[1].res = "fail"
    /\ t[2].kind = "credentials" /\ t[2].res = "pending"
    /\ cache = EmptyCache
    /\ ~stale

----------------------------------------------------------------------------
(* The cache across one token function (Spec) *)

\* The cache as it stood when the token function whose request is last in
\* the log was called: as get_valid_access_token read it, or emptied by the
\* else branch of a failed refresh.
CacheBeforeTokenCall(p) ==
    IF \E i \in (gstart[p] + 1)..(Len(log[p]) - 1) : log[p][i].kind = "refresh"
    THEN EmptyCache
    ELSE seen[p].cache

\* A token function has just returned False.
ReturnedFalse(p) ==
    /\ Len(log[p]) > gstart[p]
    /\ log[p][Len(log[p])].res = "fail"
    /\ \/ pc[p] = "g_clear_rt"
       \/ GvatReturned(p) /\ log[p][Len(log[p])].kind = "credentials"

\* A token function has just returned True.
ReturnedTrue(p) == pc[p] = "g_ret"

\* C22: when _get_token_from_credentials or _refresh_access_token returns
\* False the three cache fields are as they were before the call; when it
\* returns True all three come from the one token response.
C22_AtomicCacheUpdate ==
    /\ ReturnedFalse(Main) => cache = CacheBeforeTokenCall(Main)
    /\ ReturnedTrue(Main) =>
          /\ cache.access_token = resp[Main].access_token
          /\ cache.refresh_token = resp[Main].refresh_token
          /\ cache.expires_at = resp[Main].expires_at

----------------------------------------------------------------------------
(* The expiry buffer (Spec) *)

\* The last instant of the cached token's lifetime: the time its response
\* was read plus expires_in, taken as 0 when the response had none.
LifetimeEnd ==
    Val(issued).at + (IF Val(issued).expires_in = None THEN 0
                      ELSE Val(issued).expires_in[1])

\* C23: expires_at is the time of the token response plus expires_in (0
\* when absent) minus 60 seconds; the cached branch is taken only before
\* that instant, so never in the last 60 seconds of the token's lifetime,
\* and never for a token issued with expires_in <= 60.
C23_ExpiryBuffer ==
    /\ pc[Main] = "g_ret" =>
          /\ issued # None
          /\ cache.expires_at = Some(LifetimeEnd - 60)
    /\ pc[Main] = "g_cached" =>
          /\ issued # None
          /\ cache.expires_at = Some(LifetimeEnd - 60)
          /\ seen[Main].now < LifetimeEnd - 60
          /\ Val(issued).expires_in # None
          /\ Val(issued).expires_in[1] > 60

\* C23 witness: a token issued at 0 with expires_in 61 is in the cache with
\* expires_at 1; a call that tested the cache at 1, within the last 60
\* seconds of the token's lifetime, has sent a refresh request.
C23_Witness ==
    /\ issued # None
    /\ Val(issued).expires_in = Some(61)
    /\ Val(issued).at = 0
    /\ cache.expires_at = Some(1)
    /\ now = 1
    /\ seen[Main].now = 1
    /\ seen[Main].cache = cache
    /\ pc[Main] = "r_resp"

----------------------------------------------------------------------------
(* The order of the loader's steps (SpecPipeline) *)

\* u is an element of the list l.
InList(u, l) == \E i \in 1..Len(l) : l[i] = u

\* The INSERT of the current run was made and succeeded.
Inserted == inserts = <<[ok |-> TRUE]>>

\* In every state: the INSERT is made at most once, after the load loop went
\* through every file and loaded at least one; files are handed to
\* _move_to_processed only after the INSERT succeeded, and only files that
\* loaded; after a successful INSERT run returns 0, after a failed one 1.
LoaderOrderStates ==
    /\ Len(inserts) <= 1
    /\ inserts # <<>> =>
          /\ load_results.loaded_files # <<>>
          /\ Handled = Len(gcs_files)
    /\ MoveHandled > 0 => Inserted
    /\ \A i \in 1..Len(move_results.moved) :
          /\ InList(move_results.moved[i], load_results.loaded_files)
          /\ ~InList(move_results.moved[i], load_results.failed_files)
    /\ \A i \in 1..Len(move_results.failed) :
          /\ InList(move_results.failed[i], load_results.loaded_files)
          /\ ~InList(move_results.failed[i], load_results.failed_files)
    /\ (Inserted /\ LoaderEnded) => l_pc = "done" /\ l_ret = Some(0)
    /\ (inserts = <<[ok |-> FALSE]>> /\ LoaderEnded) =>
          l_pc = "done" /\ l_ret = Some(1)

\* In every step: a file is copied to processed/ or deleted from raw/ only
\* after the INSERT succeeded, and only a file that loaded.
LoaderOrderSteps ==
    blobs' # blobs =>
        /\ Inserted
        /\ \E i \in 1..Len(load_results.loaded_files) :
              LET u == load_results.loaded_files[i] IN
              /\ ~InList(u, load_results.failed_files)
              /\ blobs'.copied \subseteq blobs.copied \cup {u}
              /\ blobs'.deleted \subseteq blobs.deleted \cup {u}
              /\ blobs.copied \subseteq blobs'.copied
              /\ blobs.deleted \subseteq blobs'.deleted

\* C24: run's steps go load-to-temp, INSERT, move.  The INSERT runs only if
\* a file was loaded; files are moved only after the INSERT succeeded and
\* only files that loaded, so a file that failed to load, and every file
\* when the INSERT fails, stays under raw/; once the INSERT has succeeded
\* run returns 0 whatever loads or moves failed.
C24_LoadInsertMove == [](LoaderOrderStates) /\ [][LoaderOrderSteps]_vars

\* C24 witness: one file failed to load, one was moved, the move of another
\* failed, and run returned 0.
C24_Witness ==
    /\ l_pc = "done"
    /\ l_ret = Some(0)
    /\ Inserted
    /\ load_results.failed_files # <<>>
    /\ move_results.moved # <<>>
    /\ move_results.failed # <<>>
    /\ \A i \in 1..Len(load_results.failed_files) :
          /\ load_results.failed_files[i] \notin blobs.copied
          /\ load_results.failed_files[i] \notin blobs.deleted

----------------------------------------------------------------------------
(* Where a file is after _move_to_processed handled it (SpecPipeline) *)

\* The data file is under processed/: the loader copied it there.
UnderProcessed(u) == u \in blobs.copied

\* The data file is under raw/: it was uploaded there and the loader has not
\* deleted it.
UnderRaw(u) == u \notin blobs.deleted

\* C25: a file that _move_to_processed has handled is under exactly one of
\* raw/ and processed/, under processed/ only if reported in 'moved' and
\* under raw/ only if reported in 'failed'; every input URI is in exactly
\* one of the two lists.
C25_ExactlyOnePlace ==
    \A i \in 1..MoveHandled :
        LET u == MoveList[i] IN
        /\ UnderProcessed(u) # UnderRaw(u)
        /\ UnderProcessed(u) => InList(u, move_results.moved)
        /\ UnderRaw(u) => InList(u, move_results.failed)
        /\ InList(u, move_results.moved) # InList(u, move_results.failed)

----------------------------------------------------------------------------
(* extract_symbol on what the packaged client returns (SpecExtractor) *)

\* C26: when get_short_backfill of the packaged AlphaVantageClient returns
\* the text of a successful response, extract_symbol uploads one CSV blob
\* and returns its gs:// URI; when the client returns None, extract_symbol
\* returns None.
C26_RealClientUploads ==
    \A i \in 1..Len(calls) :
        /\ calls[i].data = "text" =>
              /\ calls[i].uploaded
              /\ calls[i].uri = Some(GcsUri(calls[i].symbol))
        /\ calls[i].data = "none" =>
              /\ ~calls[i].uploaded
              /\ calls[i].uri = None

----------------------------------------------------------------------------
(* _load_and_transform of the LECAP scraper (SpecLecaps) *)

\* The BigQuery calls one _load_and_transform makes when every call before
\* the delete succeeds.
FullCalls == <<"load_table_from_json", "get_table", "update_table", "query",
               "delete_table">>

\* The calls made since bigquery.Client(), that is by _load_and_transform.
TransformCalls == SubSeq(lc_calls, 2, Len(lc_calls))

\* The request ended inside the first _load_and_transform, or after it with
\* no daily values to load.
OneTransform ==
    /\ lc_pc = "done"
    /\ Len(lc_calls) >= 2
    /\ lc_cur.rows = "fixed_income"

\* C27: for non-empty rows _load_and_transform calls load, get_table and
\* update_table, query in that order and delete_table exactly once, last,
\* on every path; on failure the exception that reaches the caller is the
\* one the load or the query raised; with empty rows it makes no call.
C27_LoadTransformDelete ==
    /\ OneTransform =>
          LET c == TransformCalls IN
          /\ c[Len(c)] = "delete_table"
          /\ \A i \in 1..(Len(c) - 1) : c[i] = FullCalls[i]
          /\ lc_cur.failed = "-" => c = FullCalls
          /\ lc_cur.failed \in {"load", "query"} =>
                \/ lc_cur.error = lc_cur.failed
                \/ lc_cur.error = "delete_table"
    /\ (lc_pc = "done" /\ lc_req.fixed_income_rows = 0) =>
          \A i \in 1..Len(lc_calls) : lc_calls[i] = "Client"

====
